---- MODULE Spec2Model ----
(***************************************************************************)
(* A model of pinus' sync::PineMap and sync::PressedPineMap: a BTreeMap    *)
(* from keys to value addresses, a bump arena the values live in and, for  *)
(* PineMap, a stack of freed slots.                                        *)
(***************************************************************************)
EXTENDS Integers, Sequences, FiniteSets, TLC

\* ------------------------------------------------------------------ bounds
\* How many cells the arena hands out between two resets.
MaxCells == 3

\* The capacity (in values) the arena is created with: PineMap::with_capacity.
InitialCapacity == 1

\* The keys and the values the calls are made with.
Keys == {1, 2}
Values == {1, 2}
\* An arena address is the ordinal of the cell since the last reset of the arena.
ArenaAddrs == 1..MaxCells
\* Sites outside the arena that a factory may hand back as the value's place
\* (any `&'a mut V` the closure can produce for every 'a, e.g. Box::leak).
ForeignAddrs == {0 - 1}
Addrs == ArenaAddrs \cup ForeignAddrs

\* The values whose destructor panics.
PanickingValues == {2}

\* The threads that share the map.
Threads == {1, 2}

VARIABLES
    kind,       \* "PineMap" or "PressedPineMap": the type that was constructed
    needsDrop,  \* mem::needs_drop::<V>()
    contents,   \* the Cambium / PressedCambium behind the RwLock
    heap,       \* what each address holds: <<>> (no value) or <<key, value>>
    ret,        \* what the most recent call returned
    model,      \* the insert-if-absent map the calls so far amount to: key -> value, 0: none
    rwlock,     \* the RwLock around the contents: its writer (0: none) and its readers
    threads,    \* per thread sharing `&self`: the call it is in and what it returned
    start,      \* the keys that were live when the threads were started
    panicking,  \* the keys whose destructor panics (a property of the type K)
    phase,      \* "Active", "Destroyed" (dropped) or "Aborted" (the process is gone)
    usage       \* cells drawn from the arena, and the peak of live entries, since
                \* construction or the last clear (kept where arena use is measured)

vars ==
    <<kind, needsDrop, contents, heap, ret, model, rwlock, threads, start, panicking,
      phase, usage>>

\* The keys whose destructor panics.
PanickingKeys == panicking

\* ----------------------------------------------------------------- helpers
Last(s) == s[Len(s)]
Front(s) == SubSeq(s, 1, Len(s) - 1)
Range(s) == {s[i] : i \in 1..Len(s)}

RECURSIVE Sum(_)
Sum(s) == IF s = <<>> THEN 0 ELSE s[1] + Sum(Tail(s))

\* ------------------------------------------------------------ bumpalo::Bump
\* memory.chunks are the capacities of the chunks, oldest first; memory.used is
\* the number of cells handed out since the last reset.  A chunk is never moved.
BumpWithCapacity(n) == [chunks |-> <<n>>, used |-> 0]

\* An arena that grows by replacing its storage with a larger block, so that the
\* cells handed out before the growth are handed out again.
BumpAlloc_relocating(memory) ==
    IF memory.used < Sum(memory.chunks)
    THEN [memory |-> [memory EXCEPT !.used = @ + 1], ptr |-> memory.used + 1]
    ELSE [memory |-> [chunks |-> <<2 * Last(memory.chunks)>>, used |-> 1], ptr |-> 1]

\* An arena that hands out its next cell without advancing past it.
BumpAlloc_repeating(memory) == [memory |-> memory, ptr |-> memory.used + 1]

BumpAlloc(memory) ==
    IF memory.used < Sum(memory.chunks)
    THEN [memory |-> [memory EXCEPT !.used = @ + 1], ptr |-> memory.used + 1]
    ELSE [memory |-> [chunks |-> Append(memory.chunks, 2 * Last(memory.chunks)),
                      used |-> memory.used + 1],
          ptr |-> memory.used + 1]

\* Bump::reset keeps the current (largest) chunk and rewinds it.
BumpReset(memory) == [chunks |-> <<Last(memory.chunks)>>, used |-> 0]

\* ------------------------------------------------------------ BTreeMap
ContainsKey(addresses, key) == key \in DOMAIN addresses

MapInsert(addresses, key, value) ==
    [k \in DOMAIN addresses \cup {key} |-> IF k = key THEN value ELSE addresses[k]]

MapRemove(addresses, key) ==
    [k \in DOMAIN addresses \ {key} |-> addresses[k]]

EmptyMap == [k \in {} |-> 0]

\* ------------------------------------------------------------ results
\* A value factory: what it does when invoked (write the value into the slot it is
\* given, put it at a site of its own, return an error, panic), the value or the
\* error it makes, and how many closures of the projection wrappers are around
\* it.  "Value" is a plain value handed to insert / emplace.
Factory(outcome, val, wrap) == [outcome |-> outcome, val |-> val, wrap |-> wrap]

NoFactory == Factory("None", 0, 0)

EmplaceFactories ==
    {Factory("Ok", v, 0) : v \in Values}
        \cup {Factory("OkElsewhere", 1, 0), Factory("Err", 1, 0), Factory("Panic", 1, 0)}
InsertFactories ==
    {Factory("Ok", v, 0) : v \in Values} \cup {Factory("Err", 1, 0), Factory("Panic", 1, 0)}
InfallibleFactories ==
    {Factory("Ok", v, 0) : v \in Values} \cup {Factory("Panic", 1, 0)}
InfallibleEmplaceFactories ==
    {Factory("Ok", v, 0) : v \in Values}
        \cup {Factory("OkElsewhere", 1, 0), Factory("Panic", 1, 0)}
PlainValues == {Factory("Value", v, 0) : v \in Values}

\* What a call hands back: the kind of result, the key and factory (or value)
\* returned to the caller, the reference (address) and the value behind it, the
\* factory's error, and the panic payloads of an unwinding call.
Result(kind_, key, factory, value, val, error, panics) ==
    [kind |-> kind_, key |-> key, factory |-> factory, value |-> value,
     val |-> val, error |-> error, panics |-> panics]

NoResult == Result("None", 0, NoFactory, 0, 0, 0, <<>>)

\* A thread that is in no call.
Idle ==
    [pc |-> "idle", op |-> "none", key |-> 0, f |-> NoFactory, slot |-> 0, hole |-> FALSE,
     occupied |-> FALSE, ret |-> NoResult, invoked |-> FALSE, inner |-> "none"]
KeyOccupied(key, factory) == Result("KeyOccupied", key, factory, 0, 0, 0, <<>>)
FactoryError(error) == Result("Err", 0, NoFactory, 0, 0, error, <<>>)
Unwind(panics) == Result("Panic", 0, NoFactory, 0, 0, 0, panics)

\* The outer error.  The key the call consumed is dropped on this return: a key
\* whose destructor panics turns the return into an unwinding.
\* An early return that hands the key and the factory back with the error.
ErrReturn_inputs(key, f) == Result("Err", key, f, 0, 0, f.val, <<>>)

ErrReturn(key, f) ==
    IF key \in PanickingKeys THEN Unwind(<<[what |-> "key", key |-> key]>>)
    ELSE FactoryError(f.val)

HeapVal(h, a) == IF h[a] = <<>> THEN 0 ELSE h[a][2]
Reference(kind_, h, a) == Result(kind_, 0, NoFactory, a, HeapVal(h, a), 0, <<>>)

\* The state the handlers work on.
S == [contents |-> contents, heap |-> heap]

\* The sites outside the arena that the container does not refer to: a factory
\* that places its value itself hands back one of these.
FreeSites(s) ==
    ForeignAddrs \ ({s.contents.addresses[k] : k \in DOMAIN s.contents.addresses}
                      \cup Range(s.contents.holes))
FreshSite(s) == CHOOSE x \in FreeSites(s) : \A y \in FreeSites(s) : y <= x

\* ------------------------------------------------------------ value factory
\* value_factory(&key, slot): the closure either initialises the slot and returns
\* it, returns a site of its own, returns Err, or unwinds.
Invoke(s, key, f, slot) ==
    CASE f.outcome \in {"Ok", "Value"} ->
            [s |-> [s EXCEPT !.heap[slot] = <<key, f.val>>], res |-> "Ok", value |-> slot]
      [] f.outcome = "OkElsewhere" ->
            [s |-> [s EXCEPT !.heap[FreshSite(s)] = <<key, f.val>>],
             res |-> "Ok", value |-> FreshSite(s)]
      [] f.outcome = "Err" -> [s |-> s, res |-> "Err", value |-> 0]
      [] OTHER -> [s |-> s, res |-> "Panic", value |-> 0]

\* ------------------------------------------------- PineMap::try_emplace_with
\* A reservation that skips the occupancy check.
PineMap_reserve_unchecked(s, key) ==
    IF s.contents.holes # <<>>
    THEN [occupied |-> FALSE,
          s |-> [s EXCEPT !.contents.holes = Front(@)],
          slot |-> Last(s.contents.holes), hole |-> TRUE]
    ELSE [occupied |-> FALSE,
          s |-> [s EXCEPT !.contents.memory = BumpAlloc(@).memory],
          slot |-> BumpAlloc(s.contents.memory).ptr, hole |-> FALSE]

\* A reservation that takes the oldest hole first.
PineMap_reserve_fifo(s, key) ==
    IF ContainsKey(s.contents.addresses, key)
    THEN [occupied |-> TRUE, s |-> s, slot |-> 0, hole |-> FALSE]
    ELSE IF s.contents.holes # <<>>
    THEN [occupied |-> FALSE,
          s |-> [s EXCEPT !.contents.holes = Tail(@)],
          slot |-> Head(s.contents.holes), hole |-> TRUE]
    ELSE LET a == BumpAlloc(s.contents.memory)
         IN [occupied |-> FALSE,
             s |-> [s EXCEPT !.contents.memory = a.memory],
             slot |-> a.ptr, hole |-> FALSE]

\* A reservation that takes the newest hole and leaves it on the hole list.
PineMap_reserve_peek(s, key) ==
    IF ContainsKey(s.contents.addresses, key)
    THEN [occupied |-> TRUE, s |-> s, slot |-> 0, hole |-> FALSE]
    ELSE IF s.contents.holes # <<>>
    THEN [occupied |-> FALSE, s |-> s, slot |-> Last(s.contents.holes), hole |-> FALSE]
    ELSE LET a == BumpAlloc(s.contents.memory)
         IN [occupied |-> FALSE,
             s |-> [s EXCEPT !.contents.memory = a.memory],
             slot |-> a.ptr, hole |-> FALSE]

\* The occupancy check and the reservation of a slot, under the write lock.
PineMap_reserve(s, key) ==
    IF ContainsKey(s.contents.addresses, key)
    THEN [occupied |-> TRUE, s |-> s, slot |-> 0, hole |-> FALSE]
    ELSE IF s.contents.holes # <<>>
    THEN [occupied |-> FALSE,
          s |-> [s EXCEPT !.contents.holes = Front(@)],
          slot |-> Last(s.contents.holes), hole |-> TRUE]
    ELSE LET a == BumpAlloc(s.contents.memory)
         IN [occupied |-> FALSE,
             s |-> [s EXCEPT !.contents.memory = a.memory],
             slot |-> a.ptr, hole |-> FALSE]

\* A commit that records the reserved slot, whatever reference the factory
\* returned.
PineMap_construct_slot(s, key, f, slot, hole) ==
    LET r == Invoke(s, key, f, slot)
    IN CASE r.res = "Ok" ->
              [s |-> [r.s EXCEPT !.contents.addresses = MapInsert(@, key, slot)],
               ret |-> Reference("Ok", r.s.heap, r.value)]
         [] r.res = "Err" ->
              [s |-> IF hole THEN [r.s EXCEPT !.contents.holes = Append(@, slot)]
                             ELSE r.s,
               ret |-> ErrReturn(key, f)]
         [] OTHER -> [s |-> r.s, ret |-> Unwind(<<[what |-> "factory", key |-> key]>>)]

\* A construct that keeps the popped hole when the factory returns Err.
PineMap_construct_forgetful(s, key, f, slot, hole) ==
    LET r == Invoke(s, key, f, slot)
    IN CASE r.res = "Ok" ->
              [s |-> [r.s EXCEPT !.contents.addresses = MapInsert(@, key, r.value)],
               ret |-> Reference("Ok", r.s.heap, r.value)]
         [] r.res = "Err" -> [s |-> r.s, ret |-> ErrReturn(key, f)]
         [] OTHER -> [s |-> r.s, ret |-> Unwind(<<[what |-> "factory", key |-> key]>>)]

\* A construct that looks the key up again after the factory has returned, and
\* hands the key and the factory back: the value the factory made is left behind.
PineMap_construct_discarding(s, key, f, slot, hole) ==
    LET r == Invoke(s, key, f, slot)
    IN CASE r.res = "Ok" -> [s |-> r.s, ret |-> KeyOccupied(key, f)]
         [] r.res = "Err" ->
              [s |-> IF hole THEN [r.s EXCEPT !.contents.holes = Append(@, slot)]
                             ELSE r.s,
               ret |-> ErrReturn(key, f)]
         [] OTHER -> [s |-> r.s, ret |-> Unwind(<<[what |-> "factory", key |-> key]>>)]

\* The factory call on the reserved slot, then the commit to the index, or the
\* rollback: a popped hole is pushed back when the factory returns Err.
PineMap_construct(s, key, f, slot, hole) ==
    LET r == Invoke(s, key, f, slot)
    IN CASE r.res = "Ok" ->
              [s |-> [r.s EXCEPT !.contents.addresses = MapInsert(@, key, r.value)],
               ret |-> Reference("Ok", r.s.heap, r.value)]
         [] r.res = "Err" ->
              [s |-> IF hole THEN [r.s EXCEPT !.contents.holes = Append(@, slot)]
                             ELSE r.s,
               ret |-> ErrReturn(key, f)]
         [] OTHER -> [s |-> r.s, ret |-> Unwind(<<[what |-> "factory", key |-> key]>>)]

\* A try_emplace_with that calls the factory before it looks the key up.
PineMap_try_emplace_with_eager(s, key, f) ==
    IF f.outcome = "Err"
    THEN [s |-> s, ret |-> ErrReturn(key, f), invoked |-> TRUE]
    ELSE LET p == PineMap_reserve(s, key)
         IN IF p.occupied
            THEN [s |-> s, ret |-> KeyOccupied(key, f), invoked |-> FALSE]
            ELSE LET r == PineMap_construct(p.s, key, f, p.slot, p.hole)
                 IN [s |-> r.s, ret |-> r.ret, invoked |-> TRUE]

PineMap_try_emplace_with(s, key, f) ==
    LET p == PineMap_reserve(s, key)
    IN IF p.occupied
       THEN [s |-> s, ret |-> KeyOccupied(key, f), invoked |-> FALSE]
       ELSE LET r == PineMap_construct(p.s, key, f, p.slot, p.hole)
            IN [s |-> r.s, ret |-> r.ret, invoked |-> TRUE]

\* An exclusive-handle insert that always draws a new cell and leaves the hole
\* list alone.
PineMap_try_emplace_with_mut_fresh(s, key, f) ==
    IF ContainsKey(s.contents.addresses, key)
    THEN [s |-> s, ret |-> KeyOccupied(key, f), invoked |-> FALSE]
    ELSE LET a == BumpAlloc(s.contents.memory)
             r == Invoke([s EXCEPT !.contents.memory = a.memory], key, f, a.ptr)
         IN CASE r.res = "Ok" ->
                   [s |-> [r.s EXCEPT !.contents.addresses = MapInsert(@, key, r.value)],
                    ret |-> Reference("Ok", r.s.heap, r.value), invoked |-> TRUE]
              [] r.res = "Err" ->
                   [s |-> r.s, ret |-> ErrReturn(key, f), invoked |-> TRUE]
              [] OTHER ->
                   [s |-> r.s, ret |-> Unwind(<<[what |-> "factory", key |-> key]>>),
                    invoked |-> TRUE]

\* The same algorithm on `&mut self`, without the lock.
PineMap_try_emplace_with_mut(s, key, f) ==
    IF ContainsKey(s.contents.addresses, key)
    THEN [s |-> s, ret |-> KeyOccupied(key, f), invoked |-> FALSE]
    ELSE IF s.contents.holes # <<>>
    THEN LET hole == Last(s.contents.holes)
             r == Invoke([s EXCEPT !.contents.holes = Front(@)], key, f, hole)
         IN CASE r.res = "Ok" ->
                   [s |-> [r.s EXCEPT !.contents.addresses = MapInsert(@, key, r.value)],
                    ret |-> Reference("Ok", r.s.heap, r.value), invoked |-> TRUE]
              [] r.res = "Err" ->
                   [s |-> [r.s EXCEPT !.contents.holes = Append(@, hole)],
                    ret |-> ErrReturn(key, f), invoked |-> TRUE]
              [] OTHER ->
                   [s |-> r.s, ret |-> Unwind(<<[what |-> "factory", key |-> key]>>),
                    invoked |-> TRUE]
    ELSE LET a == BumpAlloc(s.contents.memory)
             r == Invoke([s EXCEPT !.contents.memory = a.memory], key, f, a.ptr)
         IN CASE r.res = "Ok" ->
                   [s |-> [r.s EXCEPT !.contents.addresses = MapInsert(@, key, r.value)],
                    ret |-> Reference("Ok", r.s.heap, r.value), invoked |-> TRUE]
              [] r.res = "Err" ->
                   [s |-> r.s, ret |-> ErrReturn(key, f), invoked |-> TRUE]
              [] OTHER ->
                   [s |-> r.s, ret |-> Unwind(<<[what |-> "factory", key |-> key]>>),
                    invoked |-> TRUE]

\* ------------------------------------------ PressedPineMap::try_emplace_with
\* A reservation that takes the lowest cell of the arena that holds no value
\* before it draws a new one.
PressedPineMap_reserve_reusing(s, key) ==
    LET free == {a \in 1..s.contents.memory.used : s.heap[a] = <<>>}
    IN IF ContainsKey(s.contents.addresses, key)
       THEN [occupied |-> TRUE, s |-> s, slot |-> 0, hole |-> FALSE]
       ELSE IF free # {}
       THEN [occupied |-> FALSE, s |-> s,
             slot |-> CHOOSE a \in free : \A b \in free : a <= b, hole |-> FALSE]
       ELSE LET a == BumpAlloc(s.contents.memory)
            IN [occupied |-> FALSE,
                s |-> [s EXCEPT !.contents.memory = a.memory],
                slot |-> a.ptr, hole |-> FALSE]

PressedPineMap_reserve(s, key) ==
    IF ContainsKey(s.contents.addresses, key)
    THEN [occupied |-> TRUE, s |-> s, slot |-> 0, hole |-> FALSE]
    ELSE LET a == BumpAlloc(s.contents.memory)
         IN [occupied |-> FALSE,
             s |-> [s EXCEPT !.contents.memory = a.memory],
             slot |-> a.ptr, hole |-> FALSE]

\* A construct that enters the key into the index before the factory runs, and
\* leaves it there.
PressedPineMap_construct_early(s, key, f, slot) ==
    LET r == Invoke(s, key, f, slot)
    IN CASE r.res = "Ok" ->
              [s |-> [r.s EXCEPT !.contents.addresses = MapInsert(@, key, r.value)],
               ret |-> Reference("Ok", r.s.heap, r.value)]
         [] r.res = "Err" ->
              [s |-> [r.s EXCEPT !.contents.addresses = MapInsert(@, key, slot)],
               ret |-> ErrReturn(key, f)]
         [] OTHER -> [s |-> r.s, ret |-> Unwind(<<[what |-> "factory", key |-> key]>>)]

PressedPineMap_construct(s, key, f, slot) ==
    LET r == Invoke(s, key, f, slot)
    IN CASE r.res = "Ok" ->
              [s |-> [r.s EXCEPT !.contents.addresses = MapInsert(@, key, r.value)],
               ret |-> Reference("Ok", r.s.heap, r.value)]
         [] r.res = "Err" -> [s |-> r.s, ret |-> ErrReturn(key, f)]
         [] OTHER -> [s |-> r.s, ret |-> Unwind(<<[what |-> "factory", key |-> key]>>)]

\* A try_emplace_with that has called the factory by the time it finds the key
\* occupied.
PressedPineMap_try_emplace_with_probing(s, key, f) ==
    LET p == PressedPineMap_reserve(s, key)
    IN IF p.occupied
       THEN [s |-> s, ret |-> KeyOccupied(key, f), invoked |-> TRUE]
       ELSE LET r == PressedPineMap_construct(p.s, key, f, p.slot)
            IN [s |-> r.s, ret |-> r.ret, invoked |-> TRUE]

PressedPineMap_try_emplace_with(s, key, f) ==
    LET p == PressedPineMap_reserve(s, key)
    IN IF p.occupied
       THEN [s |-> s, ret |-> KeyOccupied(key, f), invoked |-> FALSE]
       ELSE LET r == PressedPineMap_construct(p.s, key, f, p.slot)
            IN [s |-> r.s, ret |-> r.ret, invoked |-> TRUE]

PressedPineMap_try_emplace_with_mut(s, key, f) ==
    IF ContainsKey(s.contents.addresses, key)
    THEN [s |-> s, ret |-> KeyOccupied(key, f), invoked |-> FALSE]
    ELSE LET a == BumpAlloc(s.contents.memory)
             r == Invoke([s EXCEPT !.contents.memory = a.memory], key, f, a.ptr)
         IN CASE r.res = "Ok" ->
                   [s |-> [r.s EXCEPT !.contents.addresses = MapInsert(@, key, r.value)],
                    ret |-> Reference("Ok", r.s.heap, r.value), invoked |-> TRUE]
              [] r.res = "Err" ->
                   [s |-> r.s, ret |-> ErrReturn(key, f), invoked |-> TRUE]
              [] OTHER ->
                   [s |-> r.s, ret |-> Unwind(<<[what |-> "factory", key |-> key]>>),
                    invoked |-> TRUE]

\* Trait dispatch on the implementing type.
try_emplace_with(s, key, f) ==
    IF kind = "PineMap" THEN PineMap_try_emplace_with(s, key, f)
    ELSE PressedPineMap_try_emplace_with(s, key, f)

try_emplace_with_mut(s, key, f) ==
    IF kind = "PineMap" THEN PineMap_try_emplace_with_mut(s, key, f)
    ELSE PressedPineMap_try_emplace_with_mut(s, key, f)

\* ------------------------------------------------- the projection wrappers
\* `Cell::new(Some(x))`, emptied by the wrapping closure when it is invoked, and
\* `.map_err(|(key, _)| (key, cell.take().expect("unreachable")))` on the result.
Unreachable == Result("Unreachable", 0, NoFactory, 0, 0, 0, <<>>)

Wrap(f) == Factory(f.outcome, f.val, f.wrap + 1)

MapErrTake(r, f) ==
    LET cell == IF r.invoked THEN <<>> ELSE <<f>>
    IN IF r.ret.kind = "KeyOccupied"
       THEN [r EXCEPT !.ret = IF cell = <<>> THEN Unreachable
                               ELSE KeyOccupied(r.ret.key, cell[1])]
       ELSE r

\* Result<T, Infallible>::unwrap_infallible
UnwrapInfallible(r) ==
    IF r.ret.kind = "Err" THEN [r EXCEPT !.ret = Unreachable] ELSE r

PineMap_try_insert_with(s, key, f) ==
    MapErrTake(PineMap_try_emplace_with(s, key, Wrap(f)), f)

PineMap_try_insert_with_mut(s, key, f) ==
    MapErrTake(PineMap_try_emplace_with_mut(s, key, Wrap(f)), f)

PressedPineMap_try_insert_with(s, key, f) ==
    MapErrTake(PressedPineMap_try_emplace_with(s, key, Wrap(f)), f)

PressedPineMap_try_insert_with_mut(s, key, f) ==
    MapErrTake(PressedPineMap_try_emplace_with_mut(s, key, Wrap(f)), f)

try_insert_with(s, key, f) ==
    IF kind = "PineMap" THEN PineMap_try_insert_with(s, key, f)
    ELSE PressedPineMap_try_insert_with(s, key, f)

try_insert_with_mut(s, key, f) ==
    IF kind = "PineMap" THEN PineMap_try_insert_with_mut(s, key, f)
    ELSE PressedPineMap_try_insert_with_mut(s, key, f)

insert_with(s, key, f) ==
    MapErrTake(UnwrapInfallible(try_insert_with(s, key, Wrap(f))), f)

insert(s, key, value) ==
    MapErrTake(insert_with(s, key, Wrap(value)), value)

insert_with_mut(s, key, f) ==
    MapErrTake(UnwrapInfallible(try_insert_with_mut(s, key, Wrap(f))), f)

insert_mut(s, key, value) ==
    MapErrTake(insert_with_mut(s, key, Wrap(value)), value)

emplace_with(s, key, f) ==
    MapErrTake(UnwrapInfallible(try_emplace_with(s, key, Wrap(f))), f)

emplace(s, key, value) ==
    MapErrTake(emplace_with(s, key, Wrap(value)), value)

emplace_with_mut(s, key, f) ==
    MapErrTake(UnwrapInfallible(try_emplace_with_mut(s, key, Wrap(f))), f)

emplace_mut(s, key, value) ==
    MapErrTake(emplace_with_mut(s, key, Wrap(value)), value)

\* What each projection does with the result `r` of the try_emplace_with it
\* ends in, given the factory or value `f` it was called with.
after_try_insert_with(r, f) == MapErrTake(r, f)
after_insert_with(r, f) == MapErrTake(UnwrapInfallible(after_try_insert_with(r, Wrap(f))), f)
after_insert(r, value) == MapErrTake(after_insert_with(r, Wrap(value)), value)
after_emplace_with(r, f) == MapErrTake(UnwrapInfallible(r), f)
after_emplace(r, value) == MapErrTake(after_emplace_with(r, Wrap(value)), value)

\* ------------------------------------------------------------ lookup
\* A get that reports an absent key as an error.
PineMap_get_strict(s, key) ==
    IF ContainsKey(s.contents.addresses, key)
    THEN Reference("Some", s.heap, s.contents.addresses[key])
    ELSE FactoryError(0)

PineMap_get(s, key) ==
    IF ContainsKey(s.contents.addresses, key)
    THEN Reference("Some", s.heap, s.contents.addresses[key])
    ELSE NoResult

PressedPineMap_get(s, key) ==
    IF ContainsKey(s.contents.addresses, key)
    THEN Reference("Some", s.heap, s.contents.addresses[key])
    ELSE NoResult

get(s, key) ==
    IF kind = "PineMap" THEN PineMap_get(s, key) ELSE PressedPineMap_get(s, key)

PineMap_get_mut(s, key) ==
    IF ContainsKey(s.contents.addresses, key)
    THEN Reference("Some", s.heap, s.contents.addresses[key])
    ELSE NoResult

PressedPineMap_get_mut(s, key) ==
    IF ContainsKey(s.contents.addresses, key)
    THEN Reference("Some", s.heap, s.contents.addresses[key])
    ELSE NoResult

get_mut(s, key) ==
    IF kind = "PineMap" THEN PineMap_get_mut(s, key) ELSE PressedPineMap_get_mut(s, key)

\* ------------------------------------------------------------ removal
\* Whether drop_in_place of the value at `a` panics.
PanicsOnDrop(h, a) == needsDrop /\ HeapVal(h, a) \in PanickingValues

ValuePanic(key) == [what |-> "value", key |-> key]
KeyPanic(key) == [what |-> "key", key |-> key]

\* A remove_pair that moves the value out and leaves the key in the index.
PineMap_remove_pair_indexed(s, key) ==
    IF ~ContainsKey(s.contents.addresses, key)
    THEN [s |-> s, ret |-> NoResult]
    ELSE LET value == s.contents.addresses[key]
         IN [s |-> [s EXCEPT !.heap[value] = <<>>],
             ret |-> Result("Some", key, NoFactory, 0, HeapVal(s.heap, value), 0, <<>>)]

\* remove_entry, holes.push, value.read(): the value is moved out to the caller.
PineMap_remove_pair(s, key) ==
    IF ~ContainsKey(s.contents.addresses, key)
    THEN [s |-> s, ret |-> NoResult]
    ELSE LET value == s.contents.addresses[key]
             s1 == [s EXCEPT !.contents.addresses = MapRemove(@, key)]
             s2 == [s1 EXCEPT !.contents.holes = Append(@, value)]
         IN [s |-> [s2 EXCEPT !.heap[value] = <<>>],
             ret |-> Result("Some", key, NoFactory, 0, HeapVal(s.heap, value), 0, <<>>)]

\* A remove_key that does not record the slot it frees.
PineMap_remove_key_unrecorded(s, key) ==
    IF ~ContainsKey(s.contents.addresses, key)
    THEN [s |-> s, ret |-> NoResult]
    ELSE LET value == s.contents.addresses[key]
             s1 == [s EXCEPT !.contents.addresses = MapRemove(@, key)]
         IN [s |-> [s1 EXCEPT !.heap[value] = <<>>],
             ret |-> IF PanicsOnDrop(s.heap, value) THEN Unwind(<<ValuePanic(key)>>)
                     ELSE Result("Some", key, NoFactory, 0, 0, 0, <<>>)]

\* remove_entry, holes.push, value.drop_in_place(): a panic of the destructor
\* unwinds after the index and the hole list were updated.
PineMap_remove_key(s, key) ==
    IF ~ContainsKey(s.contents.addresses, key)
    THEN [s |-> s, ret |-> NoResult]
    ELSE LET value == s.contents.addresses[key]
             s1 == [s EXCEPT !.contents.addresses = MapRemove(@, key)]
             s2 == [s1 EXCEPT !.contents.holes = Append(@, value)]
         IN [s |-> [s2 EXCEPT !.heap[value] = <<>>],
             ret |-> IF PanicsOnDrop(s.heap, value) THEN Unwind(<<ValuePanic(key)>>)
                     ELSE Result("Some", key, NoFactory, 0, 0, 0, <<>>)]

PressedPineMap_remove_pair(s, key) ==
    IF ~ContainsKey(s.contents.addresses, key)
    THEN [s |-> s, ret |-> NoResult]
    ELSE LET value == s.contents.addresses[key]
             s1 == [s EXCEPT !.contents.addresses = MapRemove(@, key)]
         IN [s |-> [s1 EXCEPT !.heap[value] = <<>>],
             ret |-> Result("Some", key, NoFactory, 0, HeapVal(s.heap, value), 0, <<>>)]

\* A remove_key that runs the destructor first: its panic leaves the entry in
\* the index.
PressedPineMap_remove_key_drop_first(s, key) ==
    IF ~ContainsKey(s.contents.addresses, key)
    THEN [s |-> s, ret |-> NoResult]
    ELSE LET value == s.contents.addresses[key]
             s1 == [s EXCEPT !.contents.addresses = MapRemove(@, key)]
         IN IF PanicsOnDrop(s.heap, value)
            THEN [s |-> [s EXCEPT !.heap[value] = <<>>], ret |-> Unwind(<<ValuePanic(key)>>)]
            ELSE [s |-> [s1 EXCEPT !.heap[value] = <<>>],
                  ret |-> Result("Some", key, NoFactory, 0, 0, 0, <<>>)]

PressedPineMap_remove_key(s, key) ==
    IF ~ContainsKey(s.contents.addresses, key)
    THEN [s |-> s, ret |-> NoResult]
    ELSE LET value == s.contents.addresses[key]
             s1 == [s EXCEPT !.contents.addresses = MapRemove(@, key)]
         IN [s |-> [s1 EXCEPT !.heap[value] = <<>>],
             ret |-> IF PanicsOnDrop(s.heap, value) THEN Unwind(<<ValuePanic(key)>>)
                     ELSE Result("Some", key, NoFactory, 0, 0, 0, <<>>)]

remove_pair(s, key) ==
    IF kind = "PineMap" THEN PineMap_remove_pair(s, key)
    ELSE PressedPineMap_remove_pair(s, key)

remove_key(s, key) ==
    IF kind = "PineMap" THEN PineMap_remove_key(s, key)
    ELSE PressedPineMap_remove_key(s, key)

\* self.remove_pair(key).map(|(_, v)| v): the key is dropped here.
remove_value(s, key) ==
    LET r == remove_pair(s, key)
    IN IF r.ret.kind = "Some"
       THEN [r EXCEPT !.ret = IF key \in PanickingKeys THEN Unwind(<<KeyPanic(key)>>)
                               ELSE [r.ret EXCEPT !.key = 0]]
       ELSE r

\* A drop_entry that reports an entry whether or not there was one.
drop_entry_found(s, key) ==
    LET r == remove_key(s, key)
    IN CASE r.ret.kind \in {"Some", "None"} ->
              [r EXCEPT !.ret = IF key \in PanickingKeys /\ r.ret.kind = "Some"
                                THEN Unwind(<<KeyPanic(key)>>)
                                ELSE Result("True", 0, NoFactory, 0, 0, 0, <<>>)]
         [] OTHER -> r

\* self.remove_key(key).is_some(): the key handed back is dropped here.
drop_entry(s, key) ==
    LET r == remove_key(s, key)
    IN CASE r.ret.kind = "Some" ->
              [r EXCEPT !.ret = IF key \in PanickingKeys THEN Unwind(<<KeyPanic(key)>>)
                                ELSE Result("True", 0, NoFactory, 0, 0, 0, <<>>)]
         [] r.ret.kind = "None" ->
              [r EXCEPT !.ret = Result("False", 0, NoFactory, 0, 0, 0, <<>>)]
         [] OTHER -> r

\* ------------------------------------------------------------ teardown
Min(set) == CHOOSE x \in set : \A y \in set : x <= y

\* drop_all_pinned: the entries in key order; the key is dropped, then the value,
\* each under catch_unwind, and the panics are collected.
\* `runs` lists the destructor calls in the order they are made.
KeyDrop(key) == [what |-> "key", key |-> key]
ValueDrop(key) == [what |-> "value", key |-> key]

RECURSIVE DropLoop(_, _, _, _)
DropLoop(addresses, todo, h, panics) ==
    IF todo = {} THEN [heap |-> h, panics |-> panics, runs |-> <<>>]
    ELSE LET key == Min(todo)
             value == addresses[key]
             p1 == IF key \in PanickingKeys THEN Append(panics, KeyPanic(key))
                   ELSE panics
             p2 == IF PanicsOnDrop(h, value) THEN Append(p1, ValuePanic(key)) ELSE p1
             rest == DropLoop(addresses, todo \ {key}, [h EXCEPT ![value] = <<>>], p2)
         IN [rest EXCEPT !.runs = <<KeyDrop(key), ValueDrop(key)>> \o @]

\* The process aborts: a destructor panicked while another panic was unwinding.
Abort == Result("Abort", 0, NoFactory, 0, 0, 0, <<>>)

\* What dropping the BTreeMap itself ends in (BTreeMap::clear, or the drop glue
\* of the field): the keys are dropped in order; after a first panic the rest is
\* dropped while that panic unwinds, where a second panic aborts.
BTreeMapDrop(addresses) ==
    LET bad == DOMAIN addresses \cap PanickingKeys
    IN CASE bad = {} -> Result("Unit", 0, NoFactory, 0, 0, 0, <<>>)
         [] Cardinality(bad) = 1 -> Unwind(<<KeyPanic(Min(bad))>>)
         [] OTHER -> Abort

\* The key destructors the drop of the BTreeMap itself calls: those of the keys
\* in order, the rest of them while the first panic unwinds, up to the second
\* panic, which ends the process.
RECURSIVE KeyDropLoop(_, _)
KeyDropLoop(todo, unwinding) ==
    IF todo = {} THEN <<>>
    ELSE LET key == Min(todo)
         IN IF key \in PanickingKeys /\ unwinding THEN <<KeyDrop(key)>>
            ELSE <<KeyDrop(key)>>
                    \o KeyDropLoop(todo \ {key}, unwinding \/ key \in PanickingKeys)

\* No panic: a normal return; one: it is resumed as it is; more: one panic whose
\* payload is the vector of all of them.
Resume(panics) ==
    CASE Len(panics) = 0 -> Result("Unit", 0, NoFactory, 0, 0, 0, <<>>)
      [] Len(panics) = 1 -> Unwind(panics)
      [] OTHER -> Result("PanicVec", 0, NoFactory, 0, 0, 0, panics)

drop_all_pinned(addresses, h) ==
    LET d == DropLoop(addresses, DOMAIN addresses, h, <<>>)
    IN [heap |-> d.heap, ret |-> Resume(d.panics), runs |-> d.runs]

\* The cells of the arena after Bump::reset: none holds a value.
Wiped(h) == [a \in DOMAIN h |-> IF a \in ArenaAddrs THEN <<>> ELSE h[a]]
\* The values the index forgets without running a destructor (V needs no drop).
Forgotten(addresses, h) ==
    [a \in DOMAIN h |->
        IF \E k \in DOMAIN addresses : addresses[k] = a THEN <<>> ELSE h[a]]

\* holes.clear(); then, if V needs drop, drop_all_pinned(take(addresses)) under
\* catch_unwind, else addresses.clear(); then memory.reset(); then the caught panic
\* is resumed.  A key destructor that panics in addresses.clear() unwinds out
\* of clear at once: the arena is not reset.
PineMap_clear(s) ==
    LET addresses == s.contents.addresses
        memory == s.contents.memory
    IN IF needsDrop
       THEN LET d == drop_all_pinned(addresses, s.heap)
            IN [s |-> [contents |-> [addresses |-> EmptyMap,
                                     memory |-> BumpReset(memory),
                                     holes |-> <<>>],
                       heap |-> Wiped(d.heap)],
                ret |-> d.ret, runs |-> d.runs]
       ELSE LET d == BTreeMapDrop(addresses)
                runs == KeyDropLoop(DOMAIN addresses, FALSE)
            IN CASE d.kind = "Unit" ->
                      [s |-> [contents |-> [addresses |-> EmptyMap,
                                            memory |-> BumpReset(memory),
                                            holes |-> <<>>],
                              heap |-> Wiped(Forgotten(addresses, s.heap))],
                       ret |-> d, runs |-> runs]
                 [] d.kind = "Panic" ->
                      [s |-> [contents |-> [addresses |-> EmptyMap,
                                            memory |-> memory,
                                            holes |-> <<>>],
                              heap |-> Forgotten(addresses, s.heap)],
                       ret |-> d, runs |-> runs]
                 [] OTHER -> [s |-> s, ret |-> Abort, runs |-> runs]

\* A clear that tears the entries down in place and stops at a panic, the index
\* and the arena as they were.
PressedPineMap_clear_in_place(s) ==
    LET d == drop_all_pinned(s.contents.addresses, s.heap)
    IN IF d.ret.kind = "Unit"
       THEN [s |-> [contents |-> [addresses |-> EmptyMap,
                                  memory |-> BumpReset(s.contents.memory),
                                  holes |-> <<>>],
                    heap |-> Wiped(d.heap)],
             ret |-> d.ret]
       ELSE [s |-> [s EXCEPT !.heap = d.heap], ret |-> d.ret]

\* drop_all_pinned(take(addresses)) under catch_unwind, memory.reset(), resume.
PressedPineMap_clear(s) ==
    LET d == drop_all_pinned(s.contents.addresses, s.heap)
    IN [s |-> [contents |-> [addresses |-> EmptyMap,
                             memory |-> BumpReset(s.contents.memory),
                             holes |-> <<>>],
               heap |-> Wiped(d.heap)],
        ret |-> d.ret, runs |-> d.runs]

clear(s) ==
    IF kind = "PineMap" THEN PineMap_clear(s) ELSE PressedPineMap_clear(s)

\* The fields after the map was dropped: no index, no arena, no holes.
Dropped(h) ==
    [contents |-> [addresses |-> EmptyMap, memory |-> [chunks |-> <<>>, used |-> 0],
                   holes |-> <<>>],
     heap |-> Wiped(h)]

\* Drop for PineMap: nothing if V needs no drop, else drop_all_pinned on the
\* index taken out; then the fields are dropped, the index (with the keys still
\* in it) first.
PineMap_drop(s) ==
    IF ~needsDrop
    THEN LET d == BTreeMapDrop(s.contents.addresses)
             runs == KeyDropLoop(DOMAIN s.contents.addresses, FALSE)
         IN IF d.kind = "Abort" THEN [s |-> s, ret |-> Abort, runs |-> runs]
            ELSE [s |-> Dropped(Forgotten(s.contents.addresses, s.heap)), ret |-> d,
                  runs |-> runs]
    ELSE LET d == drop_all_pinned(s.contents.addresses, s.heap)
         IN [s |-> Dropped(d.heap), ret |-> d.ret, runs |-> d.runs]

\* Drop for PressedPineMap: drop_all_pinned on the index taken out.
PressedPineMap_drop(s) ==
    LET d == drop_all_pinned(s.contents.addresses, s.heap)
    IN [s |-> Dropped(d.heap), ret |-> d.ret, runs |-> d.runs]

drop(s) ==
    IF kind = "PineMap" THEN PineMap_drop(s) ELSE PressedPineMap_drop(s)

\* ------------------------------------------------------------ the calls
\* PineMap::with_capacity / PressedPineMap::with_capacity.
Construction ==
    /\ kind \in {"PineMap", "PressedPineMap"}
    /\ needsDrop \in BOOLEAN
    /\ contents = [addresses |-> EmptyMap,
                   memory |-> BumpWithCapacity(InitialCapacity),
                   holes |-> <<>>]
    /\ heap = [a \in Addrs |-> <<>>]
    /\ ret = NoResult
    /\ model = [k \in Keys |-> 0]
    /\ rwlock = [writer |-> 0, readers |-> {}]
    /\ threads = [t \in Threads |-> Idle]
    /\ start = {}
    /\ phase = "Active"
    /\ usage = [drawn |-> 0, peak |-> 0]

\* A key type of which key 2 panics when it is dropped.
Init == Construction /\ panicking = {2}

Live(key) == key \in DOMAIN contents.addresses

\* What bounds the calls: the arena's cells and the sites outside it.  A call in
\* which a second destructor panics while the first panic unwinds aborts the
\* process and has no state after it: such calls are not taken.
CanConstructIn(s, key, f) ==
    \/ key \in DOMAIN s.contents.addresses
    \/ /\ \/ kind = "PineMap" /\ s.contents.holes # <<>>
          \/ s.contents.memory.used < MaxCells
       /\ f.outcome = "OkElsewhere" =>
             \/ FreeSites(s) # {}
             \/ kind = "PineMap" /\ s.contents.holes # <<>>
                                 /\ Last(s.contents.holes) \in ForeignAddrs
       /\ f.outcome = "Panic" => key \notin PanickingKeys

CanConstruct(key, f) == CanConstructIn(S, key, f)

CanDrop(key) ==
    Live(key) => ~(key \in PanickingKeys /\ PanicsOnDrop(heap, contents.addresses[key]))

CanClear ==
    ~needsDrop /\ kind = "PineMap" =>
        Cardinality(DOMAIN contents.addresses \cap PanickingKeys) <= 1

\* The map of the reference semantics: an insert stores the value of a factory
\* that succeeds under a key that is absent, a removal deletes the key, a clear
\* deletes every key.
AbsInsert(m, key, f) ==
    IF m[key] = 0 /\ f.outcome \in {"Ok", "OkElsewhere", "Value"}
    THEN [m EXCEPT ![key] = f.val] ELSE m
AbsRemove(m, key) == [m EXCEPT ![key] = 0]
AbsClear(m) == [k \in Keys |-> 0]

\* A call on a map that is there; `after` is the phase a return or a panic of
\* the call leaves the map in.
Step(r, m, after) ==
    /\ phase = "Active"
    /\ contents' = r.s.contents
    /\ heap' = r.s.heap
    /\ ret' = r.ret
    /\ model' = m
    /\ start' = DOMAIN r.s.contents.addresses
    /\ phase' = IF r.ret.kind = "Abort" THEN "Aborted" ELSE after
    /\ UNCHANGED <<kind, needsDrop, rwlock, threads, panicking>>

Return(r, m) == Step(r, m, "Active") /\ UNCHANGED usage

Get(key) == Return([s |-> S, ret |-> get(S, key)], model)
GetMut(key) == Return([s |-> S, ret |-> get_mut(S, key)], model)

TryEmplaceWith(key, f) ==
    CanConstruct(key, f) /\ Return(try_emplace_with(S, key, f), AbsInsert(model, key, f))
TryEmplaceWithMut(key, f) ==
    CanConstruct(key, f) /\ Return(try_emplace_with_mut(S, key, f), AbsInsert(model, key, f))
EmplaceWith(key, f) ==
    CanConstruct(key, f) /\ Return(emplace_with(S, key, f), AbsInsert(model, key, f))
EmplaceWithMut(key, f) ==
    CanConstruct(key, f) /\ Return(emplace_with_mut(S, key, f), AbsInsert(model, key, f))
Emplace(key, value) ==
    CanConstruct(key, value) /\ Return(emplace(S, key, value), AbsInsert(model, key, value))
EmplaceMut(key, value) ==
    CanConstruct(key, value)
        /\ Return(emplace_mut(S, key, value), AbsInsert(model, key, value))
TryInsertWith(key, f) ==
    CanConstruct(key, f) /\ Return(try_insert_with(S, key, f), AbsInsert(model, key, f))
TryInsertWithMut(key, f) ==
    CanConstruct(key, f) /\ Return(try_insert_with_mut(S, key, f), AbsInsert(model, key, f))
InsertWith(key, f) ==
    CanConstruct(key, f) /\ Return(insert_with(S, key, f), AbsInsert(model, key, f))
InsertWithMut(key, f) ==
    CanConstruct(key, f) /\ Return(insert_with_mut(S, key, f), AbsInsert(model, key, f))
Insert(key, value) ==
    CanConstruct(key, value) /\ Return(insert(S, key, value), AbsInsert(model, key, value))
InsertMut(key, value) ==
    CanConstruct(key, value)
        /\ Return(insert_mut(S, key, value), AbsInsert(model, key, value))

RemovePair(key) == Return(remove_pair(S, key), AbsRemove(model, key))
RemoveValue(key) == CanDrop(key) /\ Return(remove_value(S, key), AbsRemove(model, key))
RemoveKey(key) == CanDrop(key) /\ Return(remove_key(S, key), AbsRemove(model, key))
DropEntry(key) == CanDrop(key) /\ Return(drop_entry(S, key), AbsRemove(model, key))
Clear == CanClear /\ Return(clear(S), AbsClear(model))

Next ==
    \/ \E key \in Keys : Get(key)
    \/ \E key \in Keys : GetMut(key)
    \/ \E key \in Keys, f \in EmplaceFactories : TryEmplaceWith(key, f)
    \/ \E key \in Keys, f \in EmplaceFactories : TryEmplaceWithMut(key, f)
    \/ \E key \in Keys, f \in InfallibleEmplaceFactories : EmplaceWith(key, f)
    \/ \E key \in Keys, f \in InfallibleEmplaceFactories : EmplaceWithMut(key, f)
    \/ \E key \in Keys, value \in PlainValues : Emplace(key, value)
    \/ \E key \in Keys, value \in PlainValues : EmplaceMut(key, value)
    \/ \E key \in Keys, f \in InsertFactories : TryInsertWith(key, f)
    \/ \E key \in Keys, f \in InsertFactories : TryInsertWithMut(key, f)
    \/ \E key \in Keys, f \in InfallibleFactories : InsertWith(key, f)
    \/ \E key \in Keys, f \in InfallibleFactories : InsertWithMut(key, f)
    \/ \E key \in Keys, value \in PlainValues : Insert(key, value)
    \/ \E key \in Keys, value \in PlainValues : InsertMut(key, value)
    \/ \E key \in Keys : RemovePair(key)
    \/ \E key \in Keys : RemoveValue(key)
    \/ \E key \in Keys : RemoveKey(key)
    \/ \E key \in Keys : DropEntry(key)
    \/ Clear

Spec == Init /\ [][Next]_vars

\* ------------------------------------------------- the life of one map
\* One owner constructs, fills, empties, clears and drops a map, for key types
\* of which one or every key panics when dropped; the cells drawn from the arena
\* and the peak of live entries are counted from construction or the last clear.
Max(a, b) == IF a >= b THEN a ELSE b

Measured(r) ==
    usage' = [drawn |-> usage.drawn + (r.s.contents.memory.used - contents.memory.used),
              peak |-> Max(usage.peak, Cardinality(DOMAIN r.s.contents.addresses))]

LifeTryEmplaceWith(key, f) ==
    /\ CanConstruct(key, f)
    /\ Step(try_emplace_with(S, key, f), AbsInsert(model, key, f), "Active")
    /\ Measured(try_emplace_with(S, key, f))
LifeRemoveKey(key) ==
    /\ CanDrop(key)
    /\ Step(remove_key(S, key), AbsRemove(model, key), "Active")
    /\ Measured(remove_key(S, key))
LifeRemovePair(key) ==
    /\ Step(remove_pair(S, key), AbsRemove(model, key), "Active")
    /\ Measured(remove_pair(S, key))
LifeClear ==
    /\ Step(clear(S), AbsClear(model), "Active")
    /\ usage' = [drawn |-> 0, peak |-> 0]
LifeDrop ==
    /\ Step(drop(S), AbsClear(model), "Destroyed")
    /\ UNCHANGED usage

NextLife ==
    \/ \E key \in Keys, f \in EmplaceFactories : LifeTryEmplaceWith(key, f)
    \/ \E key \in Keys : LifeRemoveKey(key)
    \/ \E key \in Keys : LifeRemovePair(key)
    \/ LifeClear
    \/ LifeDrop

InitLife == Construction /\ panicking \in {{2}, Keys}

SpecLife == InitLife /\ [][NextLife]_vars

\* ------------------------------------------ threads sharing the map (`&self`)
\* A thread calls one `&self` method: it waits for the lock, runs the body of
\* the method while it holds the lock, and returns.  The threads are joined when
\* all of them have returned.  The `&mut self` methods need the map unshared:
\* they run while no thread is in a call.
AllIdle == \A t \in Threads : threads[t].pc = "idle"

InCall(t, op, key, f) ==
    [pc |-> "waiting", op |-> op, key |-> key, f |-> f, slot |-> 0, hole |-> FALSE,
     occupied |-> FALSE, ret |-> NoResult, invoked |-> FALSE, inner |-> "none"]

Call(t, op, key, f) ==
    /\ threads[t].pc = "idle"
    /\ threads' = [threads EXCEPT ![t] = InCall(t, op, key, f)]
    /\ start' = IF AllIdle THEN DOMAIN contents.addresses ELSE start
    /\ UNCHANGED <<kind, needsDrop, panicking, phase, usage, contents, heap, ret, model,
                   rwlock>>

\* A write lock that excludes nobody.
CanWrite_unguarded(lock) == TRUE

\* A write lock that waits for the writer only, not for the readers.
CanWrite_among_readers(lock) == lock.writer = 0

\* RwLock::write returns once there is no writer and no reader.
CanWrite(lock) == lock.writer = 0 /\ lock.readers = {}
\* A read lock that does not wait for the writer.
CanRead_unguarded(lock) == TRUE

\* RwLock::read returns once there is no writer.
CanRead(lock) == lock.writer = 0

reserve(s, key) ==
    IF kind = "PineMap" THEN PineMap_reserve(s, key)
    ELSE PressedPineMap_reserve(s, key) @@ [hole |-> FALSE]

construct(s, key, f, slot, hole) ==
    IF kind = "PineMap" THEN PineMap_construct(s, key, f, slot, hole)
    ELSE PressedPineMap_construct(s, key, f, slot)

RECURSIVE WrapN(_, _)
WrapN(f, n) == IF n = 0 THEN f ELSE WrapN(Wrap(f), n - 1)

\* The closures around the caller's factory when try_emplace_with is reached.
Depth(op) ==
    CASE op = "try_emplace_with" -> 0
      [] op = "emplace_with" -> 1
      [] op = "emplace" -> 2
      [] op = "try_insert_with" -> 1
      [] op = "insert_with" -> 2
      [] op = "insert" -> 3

Projection(op, r, f) ==
    CASE op = "try_emplace_with" -> r
      [] op = "emplace_with" -> after_emplace_with(r, f)
      [] op = "emplace" -> after_emplace(r, f)
      [] op = "try_insert_with" -> after_try_insert_with(r, f)
      [] op = "insert_with" -> after_insert_with(r, f)
      [] op = "insert" -> after_insert(r, f)

\* The calls a re-entering factory makes into the map it is called from (under
\* the other key) before it makes its value.
Reentering == {"get", "insert"}
Other(key) == CHOOSE k \in Keys : k # key

\* Whether the call `c` is at a lock of the given mode: a call that has been made
\* and not begun, or a factory at the call it makes into the map.
Asks(c, mode) ==
    IF mode = "read"
    THEN \/ c.pc = "waiting" /\ c.op = "get"
         \/ c.pc = "inside" /\ c.inner = "get"
    ELSE \/ c.pc = "waiting" /\ c.op # "get"
         \/ c.pc = "inside" /\ c.inner = "insert"

\* The insert a factory makes into the map, and the call of the factory after
\* the call it made into the map has returned: it goes on to make its value.
InnerInsert(s, c) == insert(s, Other(c.key), Factory("Value", c.f.val, 0))
Resumed(c) ==
    [c EXCEPT !.pc = "locked", !.inner = "none", !.f = Factory("Ok", c.f.val, 0)]

\* A try_emplace_with that enters the key into the index when it reserves the
\* slot and gives the lock up before the factory runs.
WriteLock_early(t) ==
    LET c == threads[t]
        p == reserve(S, c.key)
    IN /\ Asks(c, "write") /\ c.pc = "waiting"
       /\ CanWrite(rwlock)
       /\ CanConstruct(c.key, c.f)
       /\ contents' = IF p.occupied THEN p.s.contents
                      ELSE [p.s.contents EXCEPT !.addresses = MapInsert(@, c.key, p.slot)]
       /\ heap' = p.s.heap
       /\ threads' = [threads EXCEPT ![t] = [c EXCEPT !.pc = "locked", !.slot = p.slot,
                                               !.hole = p.hole, !.occupied = p.occupied]]
       /\ UNCHANGED <<kind, needsDrop, panicking, phase, usage, ret, model, start, rwlock>>

\* try_emplace_with up to the factory call: the lock, the occupancy check and
\* the slot.  The insert a factory makes into the map it is called from comes
\* here for the lock like any other; with the lock it would run, and the factory
\* would go on.
WriteLock(t) ==
    LET c == threads[t]
        p == reserve(S, c.key)
        i == InnerInsert(S, c)
    IN /\ Asks(c, "write")
       /\ CanWrite(rwlock)
       /\ rwlock' = [rwlock EXCEPT !.writer = t]
       /\ IF c.inner = "none"
          THEN /\ CanConstruct(c.key, c.f)
               /\ contents' = p.s.contents
               /\ heap' = p.s.heap
               /\ threads' = [threads EXCEPT ![t] =
                                 [c EXCEPT !.pc = "locked", !.slot = p.slot,
                                           !.hole = p.hole, !.occupied = p.occupied]]
               /\ UNCHANGED model
          ELSE /\ CanConstruct(Other(c.key), Factory("Value", c.f.val, 0))
               /\ contents' = i.s.contents
               /\ heap' = i.s.heap
               /\ threads' = [threads EXCEPT ![t] = Resumed(c)]
               /\ model' = AbsInsert(model, Other(c.key), Factory("Value", c.f.val, 0))
       /\ UNCHANGED <<kind, needsDrop, panicking, phase, usage, ret, start>>

\* A call that keeps the lock when it unwinds.
Construct_unwinding_locked(t) ==
    LET c == threads[t]
        f == WrapN(c.f, Depth(c.op))
        e == IF c.occupied
             THEN [s |-> S, ret |-> KeyOccupied(c.key, f), invoked |-> FALSE]
             ELSE construct(S, c.key, f, c.slot, c.hole) @@ [invoked |-> TRUE]
        r == Projection(c.op, e, c.f)
    IN /\ c.pc = "locked"
       /\ c.occupied \/ c.f.outcome # "Reenter"
       /\ contents' = r.s.contents
       /\ heap' = r.s.heap
       /\ model' = IF r.ret.kind = "Ok" THEN [model EXCEPT ![c.key] = r.ret.val] ELSE model
       /\ rwlock' = IF r.ret.kind = "Panic" THEN rwlock
                     ELSE [rwlock EXCEPT !.writer = IF @ = t THEN 0 ELSE @]
       /\ threads' = [threads EXCEPT ![t] = [c EXCEPT !.pc = "done", !.ret = r.ret,
                                               !.invoked = r.invoked, !.slot = 0,
                                               !.hole = FALSE, !.occupied = FALSE]]
       /\ UNCHANGED <<kind, needsDrop, panicking, phase, usage, ret, start>>

\* A call that returns without giving the lock up.
Construct_holding(t) ==
    LET c == threads[t]
        f == WrapN(c.f, Depth(c.op))
        e == IF c.occupied
             THEN [s |-> S, ret |-> KeyOccupied(c.key, f), invoked |-> FALSE]
             ELSE construct(S, c.key, f, c.slot, c.hole) @@ [invoked |-> TRUE]
        r == Projection(c.op, e, c.f)
    IN /\ c.pc = "locked"
       /\ c.occupied \/ c.f.outcome # "Reenter"
       /\ contents' = r.s.contents
       /\ heap' = r.s.heap
       /\ model' = IF r.ret.kind = "Ok" THEN [model EXCEPT ![c.key] = r.ret.val] ELSE model
       /\ threads' = [threads EXCEPT ![t] = [c EXCEPT !.pc = "done", !.ret = r.ret,
                                               !.invoked = r.invoked, !.slot = 0,
                                               !.hole = FALSE, !.occupied = FALSE]]
       /\ UNCHANGED <<kind, needsDrop, panicking, phase, usage, ret, start, rwlock>>

\* The rest of try_emplace_with and of the projection that called it; the lock
\* is released on return and on unwinding alike.
Construct(t) ==
    LET c == threads[t]
        f == WrapN(c.f, Depth(c.op))
        e == IF c.occupied
             THEN [s |-> S, ret |-> KeyOccupied(c.key, f), invoked |-> FALSE]
             ELSE construct(S, c.key, f, c.slot, c.hole) @@ [invoked |-> TRUE]
        r == Projection(c.op, e, c.f)
    IN /\ c.pc = "locked"
       /\ c.occupied \/ c.f.outcome # "Reenter"
       /\ contents' = r.s.contents
       /\ heap' = r.s.heap
       /\ model' = IF r.ret.kind = "Ok" THEN [model EXCEPT ![c.key] = r.ret.val] ELSE model
       /\ rwlock' = [rwlock EXCEPT !.writer = IF @ = t THEN 0 ELSE @]
       /\ threads' = [threads EXCEPT ![t] = [c EXCEPT !.pc = "done", !.ret = r.ret,
                                               !.invoked = r.invoked, !.slot = 0,
                                               !.hole = FALSE, !.occupied = FALSE]]
       /\ UNCHANGED <<kind, needsDrop, panicking, phase, usage, ret, start>>

\* A map that notices the call of a factory into it and has the outer call
\* return an error.
Reenter_checked(t) ==
    LET c == threads[t]
    IN /\ c.pc = "locked"
       /\ ~c.occupied
       /\ c.f.outcome = "Reenter"
       /\ threads' = [threads EXCEPT ![t] = [c EXCEPT !.pc = "done", !.invoked = TRUE,
                                                      !.ret = FactoryError(c.f.val)]]
       /\ rwlock' = [rwlock EXCEPT !.writer = 0]
       /\ UNCHANGED <<kind, needsDrop, panicking, phase, usage, contents, heap, ret, model,
                      start>>

\* A factory that calls the map it is called from: the call of the factory,
\* up to the `get` or the insert inside it, which has to take the lock.
Reenter(t) ==
    LET c == threads[t]
    IN /\ c.pc = "locked"
       /\ ~c.occupied
       /\ c.f.outcome = "Reenter"
       /\ \E inner \in Reentering :
             threads' = [threads EXCEPT ![t] = [c EXCEPT !.pc = "inside", !.invoked = TRUE,
                                                        !.inner = inner]]
       /\ UNCHANGED <<kind, needsDrop, panicking, phase, usage, contents, heap, ret, model,
                      rwlock, start>>

ReadLock(t) ==
    /\ Asks(threads[t], "read")
    /\ CanRead(rwlock)
    /\ rwlock' = [rwlock EXCEPT !.readers = @ \cup {t}]
    /\ threads' = [threads EXCEPT ![t].pc = "reading"]
    /\ UNCHANGED <<kind, needsDrop, panicking, phase, usage, contents, heap, ret, model, start>>

\* The lookup under the read lock; the `get` of a factory hands its answer to the
\* factory, which goes on.
Lookup(t) ==
    /\ threads[t].pc = "reading"
    /\ rwlock' = [rwlock EXCEPT !.readers = @ \ {t}]
    /\ threads' = [threads EXCEPT ![t] =
                      IF threads[t].inner = "none"
                      THEN [@ EXCEPT !.pc = "done", !.ret = get(S, threads[t].key)]
                      ELSE Resumed(@)]
    /\ UNCHANGED <<kind, needsDrop, panicking, phase, usage, contents, heap, ret, model, start>>

Join ==
    /\ \A t \in Threads : threads[t].pc \in {"idle", "done"}
    /\ ~AllIdle
    /\ threads' = [t \in Threads |-> Idle]
    /\ start' = DOMAIN contents.addresses
    /\ UNCHANGED <<kind, needsDrop, panicking, phase, usage, contents, heap, ret, model,
                   rwlock>>

\* The `&mut self` calls between two rounds of threads.
Exclusive(r, m) ==
    /\ AllIdle
    /\ contents' = r.s.contents
    /\ heap' = r.s.heap
    /\ model' = m
    /\ start' = DOMAIN r.s.contents.addresses
    /\ UNCHANGED <<kind, needsDrop, panicking, phase, usage, ret, rwlock, threads>>

ExclusiveRemoveKey(key) ==
    CanDrop(key) /\ Exclusive(remove_key(S, key), AbsRemove(model, key))

\* The calls the threads make: each method with factories of each outcome.
SharedCalls ==
    {<<"try_emplace_with", f>> :
        f \in {Factory("Ok", 1, 0), Factory("OkElsewhere", 1, 0), Factory("Err", 1, 0),
               Factory("Panic", 1, 0)}}
      \cup {<<"emplace_with", Factory("Ok", 2, 0)>>, <<"emplace", Factory("Value", 1, 0)>>}
      \cup {<<"try_insert_with", Factory("Ok", 2, 0)>>,
            <<"try_insert_with", Factory("Err", 1, 0)>>}
      \cup {<<"insert_with", Factory("Ok", 1, 0)>>, <<"insert_with", Factory("Panic", 1, 0)>>}
      \cup {<<"insert", Factory("Value", 2, 0)>>}
      \cup {<<"get", NoFactory>>}
      \cup {<<"try_emplace_with", Factory("Reenter", 1, 0)>>}

NextConc ==
    \/ \E t \in Threads, key \in Keys, c \in SharedCalls : Call(t, c[1], key, c[2])
    \/ \E t \in Threads : WriteLock(t)
    \/ \E t \in Threads : Construct(t)
    \/ \E t \in Threads : Reenter(t)
    \/ \E t \in Threads : ReadLock(t)
    \/ \E t \in Threads : Lookup(t)
    \/ Join
    \/ \E key \in Keys : ExclusiveRemoveKey(key)

\* The threads share a map whose values have a destructor.
InitConc == Init /\ needsDrop

SpecConc == InitConc /\ [][NextConc]_vars

\* ------------------------------------------------------------ the claims
\* The values of `key` that are alive: constructed and neither destroyed nor
\* moved out.
LiveValues(key) == {a \in Addrs : heap[a] # <<>> /\ heap[a][1] = key}

\* C1: there is at most one live entry per key, the one the index holds, and every
\* try_emplace_with / try_insert_with / insert_with / insert (shared or _mut) on a
\* live key returns KeyOccupied with the caller's key and its factory or value as
\* they were handed in, and leaves the index, the hole list and the arena alone.
C1_Uniqueness ==
    /\ \A key \in Keys :
          /\ Cardinality(LiveValues(key)) <= 1
          /\ \A a \in LiveValues(key) : Live(key) /\ contents.addresses[key] = a
    /\ \A key \in Keys : Live(key) =>
          /\ \A f \in EmplaceFactories :
                /\ try_emplace_with(S, key, f).ret = KeyOccupied(key, f)
                /\ try_emplace_with(S, key, f).s = S
                /\ try_emplace_with_mut(S, key, f).ret = KeyOccupied(key, f)
                /\ try_emplace_with_mut(S, key, f).s = S
          /\ \A f \in InsertFactories :
                /\ try_insert_with(S, key, f).ret = KeyOccupied(key, f)
                /\ try_insert_with(S, key, f).s = S
                /\ try_insert_with_mut(S, key, f).ret = KeyOccupied(key, f)
                /\ try_insert_with_mut(S, key, f).s = S
          /\ \A f \in InfallibleFactories :
                /\ insert_with(S, key, f).ret = KeyOccupied(key, f)
                /\ insert_with(S, key, f).s = S
                /\ insert_with_mut(S, key, f).ret = KeyOccupied(key, f)
                /\ insert_with_mut(S, key, f).s = S
          /\ \A v \in PlainValues :
                /\ insert(S, key, v).ret = KeyOccupied(key, v)
                /\ insert(S, key, v).s = S
                /\ insert_mut(S, key, v).ret = KeyOccupied(key, v)
                /\ insert_mut(S, key, v).s = S
    /\ ret.kind = "KeyOccupied" => Live(ret.key) /\ ret.factory.wrap = 0

\* A second insert of a plain value under the live key 2 was refused.
C1_Witness ==
    /\ ret = KeyOccupied(2, Factory("Value", 1, 0))
    /\ Live(2)
    /\ Cardinality(LiveValues(2)) = 1

\* C2: while a key stays in the map, the address the index holds for it and the
\* value at that address do not change, whatever call is made: inserts of other
\* keys (with or without growth of the arena), removals of other keys, lookups.
C2_AddressStability ==
    [][\A key \in Keys :
          (key \in DOMAIN contents.addresses /\ key \in DOMAIN contents'.addresses) =>
              /\ contents'.addresses[key] = contents.addresses[key]
              /\ heap'[contents.addresses[key]] = heap[contents.addresses[key]]]_vars

\* Key 1 was stored in the first block of the arena; the arena has grown since,
\* another key was removed, and key 1 is where it was, with its value.
C2_Witness ==
    /\ Len(contents.memory.chunks) > 1
    /\ Live(1)
    /\ contents.addresses[1] = 1
    /\ heap[1] = <<1, 1>>
    /\ ~Live(2)
    /\ ret.kind = "Some" /\ ret.key = 2

\* C3: the map refines the insert-if-absent map: get(k) is Some(v) exactly when
\* the most recent successful insert under k stored v and no removal of k and no
\* clear came after it, and None otherwise.
C3_Refinement ==
    \A key \in Keys :
        /\ get(S, key) = IF model[key] = 0 THEN NoResult
                         ELSE Reference("Some", heap, contents.addresses[key])
        /\ get_mut(S, key) = get(S, key)
        /\ model[key] # 0 => get(S, key).val = model[key]
        /\ Live(key) <=> model[key] # 0

\* After 1 -> 1 and 2 -> 2 were stored and key 1 was removed, key 1 is absent and
\* key 2 still reads 2.
C3_Witness ==
    /\ ret.kind = "Some" /\ ret.key = 1
    /\ get(S, 1) = NoResult
    /\ get(S, 2).kind = "Some" /\ get(S, 2).val = 2
    /\ model = [k \in Keys |-> IF k = 2 THEN 2 ELSE 0]

\* The threads of the current round that insert under `key`, those of them that
\* have returned, those whose call succeeded, those whose factory was invoked.
InsertOps ==
    {"try_emplace_with", "emplace_with", "emplace", "try_insert_with", "insert_with", "insert"}
Racers(key) ==
    {t \in Threads : threads[t].pc # "idle" /\ threads[t].op \in InsertOps
                        /\ threads[t].key = key}
Returned(key) == {t \in Racers(key) : threads[t].pc = "done"}
Winners(key) == {t \in Returned(key) : threads[t].ret.kind = "Ok"}
Invoked(key) == {t \in Returned(key) : threads[t].invoked}
Succeeds(f) == f.outcome \in {"Ok", "OkElsewhere", "Value"}

\* C4 as stated: when several threads insert under the same absent key, then in
\* every interleaving exactly one call succeeds, exactly one factory is invoked,
\* and every other call returns KeyOccupied with its own key and its own factory
\* or value, not invoked.
C4_ExactlyOne ==
    \A key \in Keys :
        (key \notin start /\ Cardinality(Racers(key)) >= 2 /\ Returned(key) = Racers(key)) =>
            /\ Cardinality(Winners(key)) = 1
            /\ Cardinality(Invoked(key)) = 1
            /\ \A t \in Racers(key) \ Winners(key) :
                  /\ threads[t].ret = KeyOccupied(key, threads[t].f)
                  /\ ~threads[t].invoked

\* C4, amended: when several threads insert under the same absent key, at most
\* one call succeeds and at most one thread is between the occupancy check and
\* the commit; a factory is invoked only in a call that found the key absent, so
\* the factories invoked are those that failed before the winner and the
\* winner's; a call that found the key occupied returns KeyOccupied with its own
\* key and its own factory or value, not invoked; and once all have returned
\* there is a winner exactly if some call had a factory that succeeds, so that
\* with factories that all succeed exactly one call succeeds and exactly one
\* factory is invoked.
C4_SameKeyRace ==
    /\ Cardinality({t \in Threads : threads[t].pc = "locked"}) <= 1
    /\ \A t \in Threads : threads[t].pc = "locked" => rwlock = [writer |-> t, readers |-> {}]
    /\ \A key \in Keys : key \notin start =>
          /\ Cardinality(Winners(key)) <= 1
          /\ Winners(key) # {} => Live(key)
          /\ \A t \in Returned(key) :
                \/ /\ threads[t].invoked
                   /\ threads[t].ret.kind \in {"Ok", "Err", "Panic"}
                   /\ threads[t].ret.kind = "Ok" <=> Succeeds(threads[t].f)
                \/ /\ ~threads[t].invoked
                   /\ threads[t].ret = KeyOccupied(key, threads[t].f)
                   /\ Winners(key) # {}
          /\ (Racers(key) # {} /\ Returned(key) = Racers(key)) =>
                /\ Winners(key) # {} <=> \E t \in Racers(key) : Succeeds(threads[t].f)
                /\ (\A t \in Racers(key) : Succeeds(threads[t].f)) =>
                      Cardinality(Winners(key)) = 1 /\ Invoked(key) = Winners(key)

\* Both threads inserted under key 1, absent when they started: thread 1 won with
\* `insert`, thread 2 got its key and its factory back from try_emplace_with.
C4_Witness ==
    /\ 1 \notin start
    /\ threads[1].pc = "done" /\ threads[1].op = "insert" /\ threads[1].key = 1
    /\ threads[1].ret.kind = "Ok" /\ threads[1].ret.val = 2
    /\ threads[2].pc = "done" /\ threads[2].op = "try_emplace_with"
    /\ threads[2].ret = KeyOccupied(1, Factory("Ok", 1, 0))
    /\ ~threads[2].invoked
    /\ get(S, 1).val = 2

\* What a call of try_emplace_with or try_insert_with (shared or _mut) under
\* `key` with factory `f` returned, `r`, against what the two levels of its
\* result stand for.
TwoLevel(r, key, f) ==
    /\ r.ret.kind \in {"Ok", "KeyOccupied", "Err", "Panic"}
    /\ r.ret.kind = "KeyOccupied" <=> Live(key)
    /\ r.invoked <=> ~Live(key)
    /\ r.ret.kind = "Err" => r.invoked /\ f.outcome = "Err" /\ r.ret.error = f.val
    /\ (r.invoked /\ f.outcome = "Err") =>
          \/ r.ret.kind = "Err"
          \/ key \in PanickingKeys /\ r.ret = Unwind(<<KeyPanic(key)>>)

\* C5: try_insert_with and try_emplace_with return the outer error exactly if the
\* factory was invoked and failed (the error is the factory's; a call that
\* unwinds because the destructor of its key panics on that path returns
\* nothing), the inner error exactly if the key existed; the factory is invoked
\* exactly if the key was absent, so never for an occupied key, and no call
\* yields both errors.
C5_TwoLevelResult ==
    \A key \in Keys :
        /\ \A f \in EmplaceFactories : CanConstruct(key, f) =>
              /\ TwoLevel(try_emplace_with(S, key, f), key, f)
              /\ TwoLevel(try_emplace_with_mut(S, key, f), key, f)
        /\ \A f \in InsertFactories : CanConstruct(key, f) =>
              /\ TwoLevel(try_insert_with(S, key, f), key, f)
              /\ TwoLevel(try_insert_with_mut(S, key, f), key, f)

\* A factory failed under the absent key 1 while key 2 was in the map: the call
\* returned the factory's error.
C5_Witness ==
    /\ ret = FactoryError(1)
    /\ ~Live(1)
    /\ Live(2)

\* What can be seen of the map in state `s`: per key, whether it is there and
\* the value it has.
Seen(s) == [j \in Keys |-> <<get(s, j).kind, get(s, j).val>>]

\* The state after `r`, a call under the absent `key` whose factory failed,
\* against the state `s` before it; `g` ranges over the factories that succeed,
\* r1 is the later construct, r0 the same construct without the failure before.
Atomic(s, r, key, r1, r0) ==
    /\ get(r.s, key) = NoResult
    /\ \A j \in Keys \ {key} : get(r.s, j) = get(s, j)
    /\ r1.ret.kind = "Ok" /\ r0.ret.kind = "Ok"
    /\ r1.ret.val = r0.ret.val
    /\ Seen(r1.s) = Seen(r0.s)
    /\ \A j \in Keys \ {key} : get(r1.s, j) = get(s, j)

Removed(s, key) ==
    [contents |-> [addresses |-> [j \in DOMAIN s.contents.addresses \ {key} |->
                                     s.contents.addresses[j]],
                   memory |-> s.contents.memory,
                   holes |-> s.contents.holes \o <<s.contents.addresses[key]>>],
     heap |-> [a \in DOMAIN s.heap |->
                  IF a = s.contents.addresses[key] THEN <<>> ELSE s.heap[a]]]

\* C8: in a PineMap, remove_key, remove_pair and drop_entry on a live key remove
\* the key from the index, push its slot onto the hole list and destroy the
\* value or move it out; a call that returns hands out the key (remove_key), the
\* key and the value (remove_pair), or `true` for the key it dropped
\* (drop_entry); and no address on the hole list is in the index.
C8_Removal ==
    kind = "PineMap" =>
        /\ \A a \in Range(contents.holes) :
              \A key \in DOMAIN contents.addresses : contents.addresses[key] # a
        /\ \A key \in DOMAIN contents.addresses : CanDrop(key) =>
              /\ remove_key(S, key).s = Removed(S, key)
              /\ remove_pair(S, key).s = Removed(S, key)
              /\ drop_entry(S, key).s = Removed(S, key)
              /\ remove_pair(S, key).ret.kind = "Some"
              /\ remove_pair(S, key).ret.key = key
              /\ remove_pair(S, key).ret.val = get(S, key).val
              /\ remove_key(S, key).ret.kind \in {"Some", "Panic"}
              /\ remove_key(S, key).ret.kind = "Some" => remove_key(S, key).ret.key = key
              /\ drop_entry(S, key).ret.kind \in {"True", "Panic"}
        /\ (ret.kind = "Some" /\ ret.key \in Keys) =>
              /\ ~Live(ret.key)
              /\ contents.holes # <<>>
              /\ heap[Last(contents.holes)] = <<>>

\* remove_pair took key 1 with its value 2 out of a PineMap that keeps key 2: the
\* slot of key 1 is the hole.
C8_Witness ==
    /\ kind = "PineMap"
    /\ ret.kind = "Some" /\ ret.key = 1 /\ ret.val = 2
    /\ ~Live(1) /\ Live(2)
    /\ contents.holes = <<1>>
    /\ heap[1] = <<>>

\* The state after the entry of the live `key` was removed from a map of either
\* type without a destructor run.
AfterRemoval(s, key) ==
    IF kind = "PineMap" THEN Removed(s, key)
    ELSE [Removed(s, key) EXCEPT !.contents.holes = <<>>]

\* C9: if the destructor of the value panics in remove_key or drop_entry, the
\* panic is what the call ends in, and the state it leaves is the state of a
\* removal: the key is out of the index and, in a PineMap, its slot is on the hole
\* list; the calls after it behave as after any removal (the state has nothing
\* else in it that a panic could have marked).
C9_PanickingRemoval ==
    /\ \A key \in DOMAIN contents.addresses :
          (PanicsOnDrop(heap, contents.addresses[key]) /\ CanDrop(key)) =>
              /\ remove_key(S, key).ret = Unwind(<<ValuePanic(key)>>)
              /\ drop_entry(S, key).ret = Unwind(<<ValuePanic(key)>>)
              /\ remove_key(S, key).s = AfterRemoval(S, key)
              /\ drop_entry(S, key).s = AfterRemoval(S, key)
              /\ remove_key(S, key).s = remove_pair(S, key).s
              /\ get(remove_key(S, key).s, key) = NoResult
    /\ (ret.kind = "Panic" /\ ret.panics # <<>> /\ ret.panics[1].what = "value") =>
          ~Live(ret.panics[1].key)

\* The destructor of key 1's value panicked in a removal from a PineMap: the
\* panic came out of the call, key 1 is gone and its slot is the hole.
C9_Witness ==
    /\ kind = "PineMap"
    /\ ret = Unwind(<<ValuePanic(1)>>)
    /\ ~Live(1)
    /\ contents.holes = <<1>>
    /\ Live(2)

\* C10: after clear on either map type get returns None for every key, those
\* present before included, whether clear returns or ends in the panic of one
\* or of several destructors.
C10_ClearCompleteness ==
    /\ CanClear =>
          /\ \A key \in Keys : get(clear(S).s, key) = NoResult
          /\ \A key \in Keys : get_mut(clear(S).s, key) = NoResult
          /\ clear(S).ret.kind \in {"Unit", "Panic", "PanicVec"}
    /\ ret.kind \in {"Unit", "PanicVec"} => \A key \in Keys : get(S, key) = NoResult

\* clear ended in the panics of the destructors of key 2 and of its value: the
\* map is empty.
C10_Witness ==
    /\ ret.kind = "PanicVec"
    /\ ret.panics = <<KeyPanic(2), ValuePanic(2)>>
    /\ \A key \in Keys : get(S, key) = NoResult

\* The destructors that fail when every entry of `s` is torn down: those of the
\* live keys that panic and those of the live values that panic.
Failures(s) ==
    {KeyPanic(k) : k \in DOMAIN s.contents.addresses \cap PanickingKeys}
        \cup {ValuePanic(k) : k \in {x \in DOMAIN s.contents.addresses :
                                        PanicsOnDrop(s.heap, s.contents.addresses[x])}}

\* What the teardown `r` of a map with the failing destructors `failures` raises
\* when it aggregates them: nothing, the one failure as it is, or one compound
\* failure with a record of each.
Aggregated(r, failures) ==
    CASE Cardinality(failures) = 0 -> r.kind = "Unit"
      [] Cardinality(failures) = 1 -> r.kind = "Panic" /\ Range(r.panics) = failures
      [] OTHER -> /\ r.kind = "PanicVec"
                  /\ Len(r.panics) = Cardinality(failures)
                  /\ Range(r.panics) = failures

\* C11: clear and drop aggregate the failures of the destructors: with no failing
\* key or value destructor the teardown returns normally, with exactly one that
\* failure is propagated as it is, and with N >= 2 one compound failure with exactly
\* N records is raised.
C11_Aggregation ==
    phase = "Active" =>
        /\ Aggregated(clear(S).ret, Failures(S))
        /\ Aggregated(drop(S).ret, Failures(S))

\* A clear or a drop in which two destructors failed has ended.
C11_Witness ==
    /\ phase \in {"Active", "Destroyed"}
    /\ ret.kind = "PanicVec"
    /\ Len(ret.panics) >= 2

\* The removals that hand the value's slot to the hole list.
Reclaimed(s, k1) == {remove_pair(s, k1).s, remove_key(s, k1).s}

\* C12: in a PineMap every key of the index reads the value that was constructed
\* for it (never a value of a removed entry or of another key); and after the
\* removal of a live key k1 an insert of an absent key k2 puts k2 into k1's former
\* slot, get(k2) reads exactly the value made for k2, get(k1) is None (unless k2 is
\* k1 itself) and the other keys read what they read before.
C12_Reclamation ==
    (kind = "PineMap" /\ phase = "Active") =>
        /\ \A key \in DOMAIN contents.addresses :
              heap[contents.addresses[key]] = <<key, model[key]>>
        /\ \A k1 \in DOMAIN contents.addresses, k2 \in Keys, v \in Values :
              \A s1 \in Reclaimed(S, k1) :
                 LET f == Factory("Ok", v, 0)
                     r == try_emplace_with(s1, k2, f)
                     m == try_emplace_with_mut(s1, k2, f)
                 IN k2 \notin DOMAIN s1.contents.addresses =>
                       /\ r.ret.kind = "Ok"
                       /\ r.ret.value = contents.addresses[k1]
                       /\ r.s.heap[r.ret.value] = <<k2, v>>
                       /\ get(r.s, k2).kind = "Some"
                       /\ get(r.s, k2).val = v
                       /\ k1 # k2 => get(r.s, k1) = NoResult
                       /\ \A k \in Keys \ {k1, k2} : get(r.s, k) = get(S, k)
                       /\ m = r

\* The last call put key 2 with the value 2 into cell 1 of a PineMap, a cell
\* taken from the hole list (the arena has handed out two cells); key 2 reads 2
\* and key 1 is absent.
C12_Witness ==
    /\ kind = "PineMap"
    /\ ret.kind = "Ok" /\ ret.value = 1 /\ ret.val = 2
    /\ contents.memory.used = 2
    /\ Live(2) /\ contents.addresses[2] = 1
    /\ get(S, 2).val = 2
    /\ get(S, 1) = NoResult

\* C13: a PressedPineMap reclaims nothing: it has no hole list, the cells of its
\* arena that are in use never become fewer except by clear, every cell
\* the index refers to has been handed out, and a key that enters the index is put
\* into a cell that was never handed out since the last clear (so never into the
\* former cell of a removed entry).
C13_NoReclamation ==
    [][kind = "PressedPineMap" =>
          /\ contents'.holes = <<>>
          /\ contents'.memory.used < contents.memory.used => Clear
          /\ \A key \in DOMAIN contents.addresses :
                contents.addresses[key] \in ArenaAddrs =>
                    contents.addresses[key] <= contents.memory.used
          /\ \A key \in DOMAIN contents'.addresses \ DOMAIN contents.addresses :
                contents'.addresses[key] \in ArenaAddrs =>
                    /\ contents'.addresses[key] > contents.memory.used
                    /\ contents'.addresses[key] = contents'.memory.used]_vars

\* Key 1 is in cell 3 of a PressedPineMap and key 2 in cell 2: the last call
\* stored key 1 in a new cell although cell 1, which an earlier entry has left,
\* holds no value.
C13_Witness ==
    /\ kind = "PressedPineMap"
    /\ ret.kind = "Ok" /\ ret.value = 3
    /\ contents.memory.used = 3
    /\ heap[1] = <<>>
    /\ Live(1) /\ contents.addresses[1] = 3
    /\ Live(2) /\ contents.addresses[2] = 2

\* The threads whose shared insert under `key` found the key occupied: those that
\* hold the lock after the occupancy check and those that have returned.
Losers(key) ==
    {t \in Racers(key) : \/ threads[t].pc = "locked" /\ threads[t].occupied
                         \/ threads[t].pc = "done" /\ threads[t].ret.kind = "KeyOccupied"}

\* C14: from the moment a shared insert under key k finds the key occupied, and
\* as long as the threads share the map, the entry of k is complete: no factory
\* for k is running, get(k) is Some of the value the winning insert constructed and
\* returned, at the address it returned.
C14_LoserSeesWinner ==
    \A key \in Keys : Losers(key) # {} =>
        /\ \A u \in Threads :
              ~(threads[u].pc \in {"locked", "inside"} /\ threads[u].key = key
                    /\ ~threads[u].occupied)
        /\ get(S, key).kind = "Some"
        /\ model[key] # 0
        /\ get(S, key).val = model[key]
        /\ heap[contents.addresses[key]] = <<key, model[key]>>
        /\ key \notin start =>
              \E w \in Winners(key) :
                  /\ threads[w].ret.val = get(S, key).val
                  /\ threads[w].ret.value = get(S, key).value

\* Key 2 was absent when the threads started; emplace_with of thread 1 stored 2
\* under it, try_insert_with of thread 2 came back with KeyOccupied, and a get of
\* key 2 reads 2.
C14_Witness ==
    /\ 2 \notin start
    /\ threads[1].pc = "done" /\ threads[1].op = "emplace_with" /\ threads[1].key = 2
    /\ threads[1].ret.kind = "Ok"
    /\ threads[2].pc = "done" /\ threads[2].op = "try_insert_with" /\ threads[2].key = 2
    /\ threads[2].ret.kind = "KeyOccupied"
    /\ get(S, 2).kind = "Some" /\ get(S, 2).val = 2

\* C15: the drop of a PineMap ends as the full teardown of its entries ends,
\* whether or not the value type needs a destructor: the same key destructors run
\* (no cell of the index is left with a value) and the same single or compound
\* failure is raised.
C15_PureOptimisation ==
    (kind = "PineMap" /\ phase = "Active") =>
        /\ PineMap_drop(S).ret = drop_all_pinned(contents.addresses, heap).ret
        /\ PineMap_drop(S).s.contents.addresses = EmptyMap

\* A PineMap whose values need no destructor was dropped with a key in it whose
\* destructor panics: the drop ended in that panic.
C15_Witness ==
    /\ kind = "PineMap" /\ ~needsDrop
    /\ phase = "Destroyed"
    /\ ret.kind = "Panic" /\ ret.panics[1].what = "key"

\* C16: clear leaves the map empty and its storage reset, also when a destructor
\* panicked in it: the index and the hole list are empty, the arena is one block
\* of which no cell is in use or holds a value, and an insert of any key,
\* those present before included, succeeds.
C16_ClearResets ==
    (phase = "Active" /\ CanClear) =>
        LET r == clear(S)
        IN /\ r.s.contents.addresses = EmptyMap
           /\ r.s.contents.holes = <<>>
           /\ Len(r.s.contents.memory.chunks) = 1
           /\ r.s.contents.memory.used = 0
           /\ \A a \in ArenaAddrs : r.s.heap[a] = <<>>
           /\ \A key \in Keys, v \in Values :
                 /\ try_emplace_with(r.s, key, Factory("Ok", v, 0)).ret.kind = "Ok"
                 /\ try_insert_with_mut(r.s, key, Factory("Ok", v, 0)).ret.kind = "Ok"

\* clear of a PineMap whose values need no destructor ended in the panic of the
\* destructor of key 2: the index and the hole list are empty, and the cells the
\* arena had handed out are still counted as in use.
C16_Witness ==
    /\ kind = "PineMap" /\ ~needsDrop
    /\ phase = "Active"
    /\ ret = Unwind(<<KeyPanic(2)>>)
    /\ contents.addresses = EmptyMap
    /\ contents.holes = <<>>
    /\ contents.memory.used > 0

\* C17: in a PineMap the cells drawn from the arena since construction or the
\* last clear never exceed the peak of the entries that were live at once in that
\* period.
C17_ReuseBound ==
    (kind = "PineMap" /\ phase = "Active") => usage.drawn <= usage.peak

\* An insert into a PineMap without holes ended in the factory's error: a cell
\* was drawn from the arena and no entry has ever been live.
C17_Witness ==
    /\ kind = "PineMap"
    /\ ret.kind = "Err"
    /\ contents.holes = <<>>
    /\ usage.peak = 0
    /\ usage.drawn = 1

\* The threads that are in the critical section of a shared insert: the write
\* lock is taken and the factory, if the key is absent, has not returned yet.
InCriticalSection == {t \in Threads : threads[t].pc \in {"locked", "inside"}}

\* C18: while a thread is in the critical section of a shared insert it holds
\* the write lock alone, and no step of another thread gets that thread on in its
\* call: another thread can only enter a call and wait, whatever key it asks
\* for; a waiting call gets on (and later completes) only in a state in which
\* no insert is in its critical section.
C18_FactoryStalls ==
    [][/\ \A t \in InCriticalSection :
             /\ rwlock = [writer |-> t, readers |-> {}]
             /\ \A u \in Threads \ {t} :
                   /\ threads[u].pc \in {"idle", "waiting", "done"}
                   /\ threads'[u].ret = threads[u].ret
                   /\ \/ threads'[u].pc = threads[u].pc
                      \/ threads[u].pc = "idle" /\ threads'[u].pc = "waiting"
       /\ \A u \in Threads :
             (threads[u].pc = "waiting" /\ threads'[u].pc # "waiting") =>
                 InCriticalSection = {} /\ rwlock.writer = 0]_vars

\* Thread 1 holds the write lock for an insert under the absent key 1 (its
\* factory has not returned), and the get of key 2 by thread 2 waits.
C18_Witness ==
    /\ threads[1].pc = "locked" /\ threads[1].key = 1 /\ ~threads[1].occupied
    /\ rwlock.writer = 1
    /\ threads[2].pc = "waiting" /\ threads[2].op = "get" /\ threads[2].key = 2
    /\ threads[2].ret = NoResult

\* C19: a factory that calls get or insert on the map it is called from, inside
\* a shared try_emplace_with, never returns: once the factory is invoked the
\* thread is inside it at the lock its own call holds, it stays there in every
\* step, its call has no result (no error either), and the map stays as it is:
\* the key is not in the index, every indexed cell holds the value of its key, no
\* hole is indexed or holds a value, and the slot reserved for the call is
\* neither indexed nor a hole.  The call returns (KeyOccupied) only if the
\* factory was not invoked.
C19_ReentrancyDeadlocks ==
    [][\A t \in Threads :
          LET c == threads[t]
          IN /\ (c.f.outcome = "Reenter" /\ c.invoked) => c.pc = "inside"
             /\ (c.f.outcome = "Reenter" /\ c.pc = "done") => c.ret = KeyOccupied(c.key, c.f)
             /\ c.pc = "inside" =>
                   /\ c.ret = NoResult
                   /\ rwlock = [writer |-> t, readers |-> {}]
                   /\ ~CanRead(rwlock) /\ ~CanWrite(rwlock)
                   /\ threads'[t] = c
                   /\ contents' = contents /\ heap' = heap /\ rwlock' = rwlock
                   /\ c.key \notin DOMAIN contents.addresses
                   /\ \A k \in DOMAIN contents.addresses :
                         /\ heap[contents.addresses[k]] = <<k, model[k]>>
                         /\ contents.addresses[k] # c.slot
                   /\ \A a \in Range(contents.holes) :
                         /\ heap[a] = <<>>
                         /\ a # c.slot
                         /\ \A k \in DOMAIN contents.addresses : contents.addresses[k] # a]_vars

\* The factory of thread 1's try_emplace_with under key 1 has called get on the
\* map: the thread is at the read lock while its own call holds the write lock,
\* and its call has not returned.
C19_Witness ==
    /\ threads[1].pc = "inside" /\ threads[1].inner = "get"
    /\ threads[1].op = "try_emplace_with" /\ threads[1].key = 1
    /\ threads[1].invoked
    /\ threads[1].ret = NoResult
    /\ rwlock.writer = 1

\* C20: in a PineMap with a non-empty hole list, an insert of an absent key whose
\* factory returns an error invokes the factory and leaves the hole list (its
\* addresses and their order), the index, the arena and the cells exactly as
\* they were; this holds for try_emplace_with and try_insert_with, shared and
\* _mut, also when the key that is dropped on the way out panics.
C20_HoleRollback ==
    (kind = "PineMap" /\ phase = "Active" /\ contents.holes # <<>>) =>
        /\ \A key \in Keys \ DOMAIN contents.addresses :
              LET f == Factory("Err", 1, 0)
              IN /\ try_emplace_with(S, key, f).s = S
                 /\ try_emplace_with_mut(S, key, f).s = S
                 /\ try_insert_with(S, key, f).s = S
                 /\ try_insert_with_mut(S, key, f).s = S
                 /\ try_emplace_with(S, key, f).invoked
                 /\ try_emplace_with_mut(S, key, f).invoked
                 /\ try_emplace_with(S, key, f).ret = ErrReturn(key, f)
                 /\ try_emplace_with_mut(S, key, f).ret = ErrReturn(key, f)
        /\ ret.kind = "Err" => /\ Last(contents.holes) \notin
                                     {contents.addresses[k] : k \in DOMAIN contents.addresses}
                               /\ heap[Last(contents.holes)] = <<>>

\* An insert into a PineMap ended in the factory's error while cell 1, left by a
\* removed entry, was the only hole: cell 1 is the only hole again, the index is
\* empty and the arena has handed out that one cell.
C20_Witness ==
    /\ kind = "PineMap"
    /\ ret.kind = "Err" /\ ret.error = 1
    /\ contents.holes = <<1>>
    /\ contents.memory.used = 1
    /\ contents.addresses = EmptyMap
    /\ heap[1] = <<>>

\* C21: when the cell of an insert is drawn from the arena (a PineMap without
\* holes, or a PressedPineMap) and the factory returns an error, the cell is given
\* back: the failed call leaves the index, the hole list and the arena as they
\* were, up to a cell that is on the hole list afterwards, and the next insert is
\* put where it would have been put without the failed call.
C21_FreshRollback ==
    (phase = "Active" /\ contents.holes = <<>>) =>
        \A key \in Keys \ DOMAIN contents.addresses :
            LET f == Factory("Err", 1, 0)
                g == Factory("Ok", 1, 0)
                r == try_emplace_with(S, key, f)
                m == try_emplace_with_mut(S, key, f)
            IN CanConstructIn(r.s, key, g) =>
                  /\ r.s.contents.addresses = contents.addresses
                  /\ \/ r.s.contents.memory.used = contents.memory.used
                     \/ Len(r.s.contents.holes) = 1
                  /\ \/ m.s.contents.memory.used = contents.memory.used
                     \/ Len(m.s.contents.holes) = 1
                  /\ try_emplace_with(r.s, key, g).ret.value
                        = try_emplace_with(S, key, g).ret.value
                  /\ try_emplace_with_mut(m.s, key, g).ret.value
                        = try_emplace_with_mut(S, key, g).ret.value

\* An insert into an empty map without holes ended in the factory's error: the
\* arena counts one cell as handed out, and the cell is neither indexed nor on
\* the hole list.
C21_Witness ==
    /\ ret = FactoryError(1)
    /\ contents.addresses = EmptyMap
    /\ contents.holes = <<>>
    /\ contents.memory.used = 1
    /\ \A a \in Addrs : heap[a] = <<>>

\* Where try_emplace_with (`r`) took the cell for an absent key from, against the
\* state `s` it was called in: the newest hole if there is one, and then the
\* arena is not drawn from; else the next cell of the arena.
FromHoleFirst(s, r, f) ==
    IF s.contents.holes # <<>>
    THEN /\ r.s.contents.memory = s.contents.memory
         /\ r.s.contents.holes = IF f.outcome = "Err" THEN s.contents.holes
                                 ELSE Front(s.contents.holes)
         /\ f.outcome \in {"Ok", "Value"} => r.ret.value = Last(s.contents.holes)
    ELSE /\ r.s.contents.memory.used = s.contents.memory.used + 1
         /\ r.s.contents.holes = <<>>
         /\ f.outcome \in {"Ok", "Value"} => r.ret.value = s.contents.memory.used + 1

\* C22: in a PineMap an insert of an absent key takes its cell from the hole list
\* whenever the list is not empty, the most recently freed cell first, and draws
\* a cell from the arena only when the list is empty; of two entries removed one
\* after the other, the cell of the second is reused first and the cell of the
\* first next.
C22_AllocationOrder ==
    (kind = "PineMap" /\ phase = "Active") =>
        /\ \A key \in Keys \ DOMAIN contents.addresses, f \in EmplaceFactories :
              CanConstruct(key, f) =>
                  /\ FromHoleFirst(S, try_emplace_with(S, key, f), f)
                  /\ FromHoleFirst(S, try_emplace_with_mut(S, key, f), f)
        /\ \A key \in Keys \ DOMAIN contents.addresses, f \in InsertFactories :
              CanConstruct(key, f) =>
                  /\ FromHoleFirst(S, try_insert_with(S, key, f), f)
                  /\ FromHoleFirst(S, try_insert_with_mut(S, key, f), f)
        /\ \A k1 \in DOMAIN contents.addresses :
              \A k2 \in DOMAIN contents.addresses \ {k1} :
              LET s2 == remove_pair(remove_key(S, k1).s, k2).s
                  a == try_emplace_with(s2, k1, Factory("Ok", 1, 0))
                  b == try_emplace_with(a.s, k2, Factory("Ok", 1, 0))
              IN /\ a.ret.value = contents.addresses[k2]
                 /\ b.ret.value = contents.addresses[k1]

\* The last call stored a key in cell 2 of a PineMap whose arena has handed out two
\* cells, and cell 1 is the one hole left: of the holes 1 and 2 the newer was
\* taken.
C22_Witness ==
    /\ kind = "PineMap"
    /\ ret.kind = "Ok" /\ ret.value = 2
    /\ contents.memory.used = 2
    /\ contents.holes = <<1>>
    /\ Cardinality(DOMAIN contents.addresses) = 1

\* --------------------------------------------- the teardown of a filled map
\* clear and drop as functions of the map they are called on: a map that was
\* filled with up to three keys by insertion, for key types of which any keys
\* panic when dropped.
TeardownKeys == {1, 2, 3}

RECURSIVE Filled(_, _, _)
Filled(s, todo, values) ==
    IF todo = {} THEN s
    ELSE LET key == Min(todo)
         IN Filled(try_emplace_with_mut(s, key, Factory("Ok", values[key], 0)).s,
                   todo \ {key}, values)

InitTeardown ==
    /\ kind \in {"PineMap", "PressedPineMap"}
    /\ needsDrop \in BOOLEAN
    /\ panicking \in SUBSET TeardownKeys
    /\ \E live \in SUBSET TeardownKeys : \E values \in [live -> Values] :
          LET s == Filled([contents |-> [addresses |-> EmptyMap,
                                         memory |-> BumpWithCapacity(InitialCapacity),
                                         holes |-> <<>>],
                           heap |-> [a \in Addrs |-> <<>>]], live, values)
          IN contents = s.contents /\ heap = s.heap
    /\ ret = NoResult
    /\ model = [k \in Keys |-> 0]
    /\ rwlock = [writer |-> 0, readers |-> {}]
    /\ threads = [t \in Threads |-> Idle]
    /\ start = {}
    /\ phase = "Active"
    /\ usage = [drawn |-> 0, peak |-> 0]

NextTeardown ==
    \/ LifeClear
    \/ LifeDrop

SpecTeardown == InitTeardown /\ [][NextTeardown]_vars

Count(x, seq) == Cardinality({i \in 1..Len(seq) : seq[i] = x})

\* The destructor of every key of the index ran once and, where values have a
\* destructor, that of every value ran once; nothing was destroyed twice and
\* nothing else was destroyed.
EveryEntryOnce(s, runs) ==
    /\ \A key \in DOMAIN s.contents.addresses :
          /\ Count(KeyDrop(key), runs) = 1
          /\ Count(ValueDrop(key), runs) <= 1
          /\ needsDrop => Count(ValueDrop(key), runs) = 1
    /\ \A i \in 1..Len(runs) : runs[i].key \in DOMAIN s.contents.addresses

\* C23: clear and drop destroy every key and every value that was live exactly
\* once, whichever key or value destructors panic: the value of a key whose
\* destructor panicked, and every key and value after it, is destroyed too.
C23_TeardownVisitsAll ==
    phase = "Active" =>
        /\ EveryEntryOnce(S, clear(S).runs)
        /\ EveryEntryOnce(S, drop(S).runs)

\* The teardown that goes through drop_all_pinned does so: every destructor runs
\* once, every cell is emptied and every panic is reported.
C23_PinnedTeardown ==
    (phase = "Active" /\ (needsDrop \/ kind = "PressedPineMap")) =>
        /\ EveryEntryOnce(S, clear(S).runs)
        /\ EveryEntryOnce(S, drop(S).runs)
        /\ \A a \in Addrs : clear(S).s.heap[a] = <<>> /\ drop(S).s.heap[a] = <<>>

\* A teardown of three entries without value destructors that ended the process
\* at the destructor of the second key, with the third key never destroyed.
C23_Witness ==
    /\ phase = "Aborted"
    /\ kind = "PineMap" /\ ~needsDrop
    /\ DOMAIN contents.addresses = TeardownKeys
    /\ panicking = {1, 2}
    /\ Count(KeyDrop(3), clear(S).runs) = 0

\* C24: every shared get runs under the read lock and every shared insert under
\* the write lock; at most one thread is in the critical section of an insert,
\* and no reader is in a lookup meanwhile; the index, the arena, the hole list
\* and the values change only in a step of the thread that holds the write lock
\* alone, or in a `&mut self` call made while no thread is in a call.
C24_LockDiscipline ==
    [][/\ Cardinality(InCriticalSection) <= 1
       /\ \A t \in InCriticalSection : rwlock = [writer |-> t, readers |-> {}]
       /\ \A t \in Threads :
             threads[t].pc = "reading" => rwlock.writer = 0 /\ t \in rwlock.readers
       /\ \A t \in Threads :
             (threads[t].pc # "done" /\ threads'[t].pc = "done") =>
                IF threads[t].op = "get"
                THEN t \in rwlock.readers /\ rwlock.writer = 0
                ELSE rwlock = [writer |-> t, readers |-> {}]
       /\ (contents' # contents \/ heap' # heap) =>
             \/ AllIdle /\ threads' = threads /\ rwlock = [writer |-> 0, readers |-> {}]
             \/ \E t \in Threads :
                   /\ threads[t].op # "get"
                   /\ threads'[t] # threads[t]
                   /\ rwlock.readers = {} /\ rwlock'.readers = {}
                   /\ rwlock.writer \in {0, t} /\ rwlock'.writer \in {0, t}
                   /\ rwlock.writer = t \/ rwlock'.writer = t
                   /\ \A u \in Threads \ {t} : threads[u].pc \in {"idle", "waiting", "done"}]_vars

\* Thread 1 is in a lookup of key 1 under the read lock while the insert of
\* thread 2 under the same key waits for the write lock.
C24_Witness ==
    /\ threads[1].pc = "reading" /\ threads[1].op = "get" /\ threads[1].key = 1
    /\ rwlock = [writer |-> 0, readers |-> {1}]
    /\ threads[2].pc = "waiting" /\ threads[2].op = "insert" /\ threads[2].key = 1
    /\ contents.addresses = EmptyMap

\* What a call that invoked a succeeding factory left behind: it returned Ok with
\* the reference the factory returned, the value the factory made is there, and
\* the index holds that address for the key.
Kept(r, key, f) ==
    /\ ~r.invoked <=> r.ret.kind = "KeyOccupied"
    /\ (r.invoked /\ f.outcome \in {"Ok", "OkElsewhere", "Value"}) =>
          /\ r.ret.kind = "Ok"
          /\ r.ret.val = f.val
          /\ key \in DOMAIN r.s.contents.addresses
          /\ r.s.contents.addresses[key] = r.ret.value
          /\ r.s.heap[r.ret.value] = <<key, f.val>>

\* C25: whenever the factory invoked by try_emplace_with or try_insert_with
\* (shared or _mut) returns success, the call returns Ok with a reference to
\* exactly the value the factory made, and the key is indexed to that address;
\* a call returns KeyOccupied only if it never invoked its factory.
C25_NoValueDiscarded ==
    /\ \A key \in Keys, f \in EmplaceFactories :
          CanConstruct(key, f) => /\ Kept(try_emplace_with(S, key, f), key, f)
                                  /\ Kept(try_emplace_with_mut(S, key, f), key, f)
    /\ \A key \in Keys, f \in InsertFactories :
          CanConstruct(key, f) => /\ Kept(try_insert_with(S, key, f), key, f)
                                  /\ Kept(try_insert_with_mut(S, key, f), key, f)
    /\ ret.kind = "Ok" =>
          \E key \in DOMAIN contents.addresses :
              /\ contents.addresses[key] = ret.value
              /\ heap[ret.value] = <<key, ret.val>>

\* An insert of key 2 into a map that holds key 1 returned the reference to the
\* value 2 its factory wrote into the second cell; the index holds that cell.
C25_Witness ==
    /\ ret.kind = "Ok" /\ ret.value = 2 /\ ret.val = 2
    /\ DOMAIN contents.addresses = {1, 2}
    /\ contents.addresses[2] = 2
    /\ heap[2] = <<2, 2>>

\* C26: for every state, key and factory, try_emplace_with_mut returns what
\* try_emplace_with returns and leaves the same index, hole list, arena and
\* values, in both map types, whether the key is live or absent and whether
\* the factory succeeds, returns an error or panics; the projections on the
\* exclusive handle agree with those on the shared handle in the same way.
C26_MutEqualsShared ==
    /\ \A key \in Keys, f \in EmplaceFactories :
          CanConstruct(key, f) =>
              LET m == try_emplace_with_mut(S, key, f)
                  r == try_emplace_with(S, key, f)
              IN /\ m.ret = r.ret
                 /\ m.s.contents = r.s.contents
                 /\ m.s.heap = r.s.heap
                 /\ m.invoked = r.invoked
    /\ \A key \in Keys, f \in InsertFactories :
          CanConstruct(key, f) =>
              /\ try_insert_with_mut(S, key, f).ret = try_insert_with(S, key, f).ret
              /\ try_insert_with_mut(S, key, f).s = try_insert_with(S, key, f).s
    /\ \A key \in Keys, f \in InfallibleEmplaceFactories :
          CanConstruct(key, f) =>
              /\ emplace_with_mut(S, key, f).ret = emplace_with(S, key, f).ret
              /\ emplace_with_mut(S, key, f).s = emplace_with(S, key, f).s
    /\ \A key \in Keys, v \in PlainValues :
          CanConstruct(key, v) =>
              /\ insert_mut(S, key, v).ret = insert(S, key, v).ret
              /\ insert_mut(S, key, v).s = insert(S, key, v).s
              /\ emplace_mut(S, key, v).ret = emplace(S, key, v).ret
              /\ emplace_mut(S, key, v).s = emplace(S, key, v).s

\* A PressedPineMap on which an insert of key 1 (which ends the same on either
\* handle) has just returned the factory's error, with key 2 live: the cell drawn
\* for the call is the third.
C26_Witness ==
    /\ kind = "PressedPineMap"
    /\ ret = FactoryError(1)
    /\ DOMAIN contents.addresses = {2}
    /\ contents.memory.used = 3

\* The two threads are in (or back from) shared inserts under different keys,
\* both absent when the threads were started.
DifferentKeys ==
    /\ \A t \in Threads : threads[t].pc # "idle" /\ threads[t].op \in InsertOps
                             /\ threads[t].key \notin start
    /\ threads[1].key # threads[2].key

\* C27 as stated: when two threads insert under different absent keys, both
\* calls succeed, each factory is invoked exactly once, and the two entries get
\* distinct addresses.
C27_BothSucceed ==
    (DifferentKeys /\ \A t \in Threads : threads[t].pc = "done") =>
        /\ \A t \in Threads : threads[t].ret.kind = "Ok" /\ threads[t].invoked
        /\ threads[1].ret.value # threads[2].ret.value

\* C27, amended: when two threads insert under different absent keys, neither
\* call finds its key occupied, whichever goes first; each call that returns
\* has invoked its own factory, and it has succeeded exactly if its factory
\* did, leaving its key with the factory's value; two calls that succeeded got
\* distinct addresses, which the index holds for the two keys.
C27_DifferentKeys ==
    DifferentKeys =>
        /\ \A t \in Threads : ~threads[t].occupied
        /\ \A t \in Threads : threads[t].pc = "done" =>
              /\ threads[t].invoked
              /\ threads[t].ret.kind \in {"Ok", "Err", "Panic"}
              /\ threads[t].ret.kind = "Ok" <=> Succeeds(threads[t].f)
              /\ threads[t].ret.kind = "Ok" =>
                    /\ Live(threads[t].key)
                    /\ contents.addresses[threads[t].key] = threads[t].ret.value
                    /\ heap[threads[t].ret.value] = <<threads[t].key, threads[t].f.val>>
              /\ threads[t].ret.kind # "Ok" => ~Live(threads[t].key)
        /\ (\A t \in Threads : threads[t].pc = "done" /\ threads[t].ret.kind = "Ok") =>
              /\ threads[1].ret.value # threads[2].ret.value
              /\ contents.addresses[threads[1].key] # contents.addresses[threads[2].key]

\* Thread 2 inserted key 2 first and got the first cell, thread 1 inserted key 1
\* after it and got the second.
C27_Witness ==
    /\ start = {}
    /\ threads[1].pc = "done" /\ threads[1].op = "insert_with" /\ threads[1].key = 1
    /\ threads[2].pc = "done" /\ threads[2].op = "try_insert_with" /\ threads[2].key = 2
    /\ threads[1].ret.kind = "Ok" /\ threads[1].ret.value = 2
    /\ threads[2].ret.kind = "Ok" /\ threads[2].ret.value = 1
    /\ threads[1].invoked /\ threads[2].invoked

\* ------------------------------------- threads sharing the map, scheduled fairly
\* The threads make calls whose factories return (with a value, an error or a
\* panic) and never call the map.  A thread that waits for the lock gets it once
\* it is free and stays free for it (the RwLock is fair), a factory that was
\* called returns, and a lookup that has the read lock ends.  A shared insert is
\* made only while the arena has a cell left for it.
FairCalls ==
    {<<"try_emplace_with", Factory("Ok", 1, 0)>>, <<"try_emplace_with", Factory("Err", 1, 0)>>,
     <<"insert_with", Factory("Panic", 1, 0)>>, <<"get", NoFactory>>}

Pending == {t \in Threads : threads[t].pc = "waiting" /\ threads[t].op # "get"}

FairCall(t, op, key, f) ==
    /\ op # "get" => contents.memory.used + Cardinality(Pending) < MaxCells
    /\ f.outcome = "Panic" => key \notin PanickingKeys
    /\ Call(t, op, key, f)

NextFair ==
    \/ \E t \in Threads, key \in Keys, c \in FairCalls : FairCall(t, c[1], key, c[2])
    \/ \E t \in Threads : WriteLock(t)
    \/ \E t \in Threads : Construct(t)
    \/ \E t \in Threads : ReadLock(t)
    \/ \E t \in Threads : Lookup(t)
    \/ Join
    \/ \E key \in Keys : ExclusiveRemoveKey(key)

Fairness ==
    \A t \in Threads :
        /\ WF_vars(WriteLock(t))
        /\ WF_vars(Construct(t))
        /\ WF_vars(ReadLock(t))
        /\ WF_vars(Lookup(t))

SpecFair == InitConc /\ [][NextFair]_vars /\ Fairness

\* C28: when no factory calls the map and every factory returns, every shared
\* get and every shared insert a thread has made eventually returns, whatever the
\* other thread does meanwhile, provided a free lock is eventually given to
\* the thread that waits for it.
C28_RunToCompletion ==
    \A t \in Threads : (threads[t].pc \in {"waiting", "locked", "reading"}) ~> (threads[t].pc = "done")

\* Thread 1 waits for the read lock while thread 2 is in the factory of its
\* insert under the same key, holding the write lock.
C28_Witness ==
    /\ threads[1].pc = "waiting" /\ threads[1].op = "get" /\ threads[1].key = 1
    /\ threads[2].pc = "locked" /\ threads[2].op = "try_emplace_with" /\ threads[2].key = 1
    /\ ~threads[2].occupied
    /\ rwlock = [writer |-> 2, readers |-> {}]

\* What a projection hands back: it did not come to an `expect("unreachable")`;
\* the Cell around the caller's factory or value was emptied at most once, by
\* the wrapping closure or by the mapping of KeyOccupied; and KeyOccupied carries
\* the caller's key and the caller's own factory or value, unwrapped.
Projected(r, key, f) ==
    /\ r.ret.kind # "Unreachable"
    /\ ~(r.invoked /\ r.ret.kind = "KeyOccupied")
    /\ r.ret.kind = "KeyOccupied" => r.ret = KeyOccupied(key, f)
    /\ r.ret.kind = "Ok" => r.invoked /\ r.ret.val = f.val

\* C29: no call of try_insert_with, insert_with, insert, emplace_with or emplace
\* (shared or _mut) reaches an `expect("unreachable")`: the wrapped factory or
\* value is taken out of its Cell at most once per call, and whenever the inner
\* KeyOccupied is mapped back it is still in the Cell, so that the caller gets
\* its own factory or value back.
C29_NeverUnreachable ==
    /\ ret.kind # "Unreachable"
    /\ \A key \in Keys, f \in InsertFactories :
          CanConstruct(key, f) => /\ Projected(try_insert_with(S, key, f), key, f)
                                  /\ Projected(try_insert_with_mut(S, key, f), key, f)
    /\ \A key \in Keys, f \in InfallibleFactories :
          CanConstruct(key, f) => /\ Projected(insert_with(S, key, f), key, f)
                                  /\ Projected(insert_with_mut(S, key, f), key, f)
    /\ \A key \in Keys, f \in InfallibleEmplaceFactories :
          CanConstruct(key, f) => /\ Projected(emplace_with(S, key, f), key, f)
                                  /\ Projected(emplace_with_mut(S, key, f), key, f)
    /\ \A key \in Keys, v \in PlainValues :
          CanConstruct(key, v) => /\ Projected(insert(S, key, v), key, v)
                                  /\ Projected(insert_mut(S, key, v), key, v)
                                  /\ Projected(emplace(S, key, v), key, v)
                                  /\ Projected(emplace_mut(S, key, v), key, v)

\* An insert or emplace of the plain value 2 under the live key 1, whose value is
\* 1, was refused and handed the value 2 back.
C29_Witness ==
    /\ ret = KeyOccupied(1, Factory("Value", 2, 0))
    /\ get(S, 1).kind = "Some" /\ get(S, 1).val = 1

\* The addresses the index holds.
Indexed == {contents.addresses[k] : k \in DOMAIN contents.addresses}

\* C30: in every reachable state of a PineMap distinct live keys have distinct
\* addresses, no address is both in the index and on the hole list, no address
\* is on the hole list twice, and every address on the hole list is a cell the
\* arena has handed out since the last clear.
C30_SlotDisjointness ==
    kind = "PineMap" =>
        /\ \A k1 \in DOMAIN contents.addresses : \A k2 \in DOMAIN contents.addresses :
              k1 # k2 => contents.addresses[k1] # contents.addresses[k2]
        /\ Indexed \cap Range(contents.holes) = {}
        /\ Cardinality(Range(contents.holes)) = Len(contents.holes)
        /\ Range(contents.holes) \subseteq 1..contents.memory.used

\* A value that its factory placed at a site of its own was removed: the site
\* is on the hole list, and the cell drawn for the insert holds nothing.
C30_Witness ==
    /\ kind = "PineMap"
    /\ contents.addresses = EmptyMap
    /\ Len(contents.holes) = 1
    /\ Range(contents.holes) \subseteq ForeignAddrs
    /\ contents.memory.used = 1
    /\ heap[1] = <<>>

\* The cells that hold a value.
Held(h) == {a \in Addrs : h[a] # <<>>}

\* Every value there is, is the value of the key the index holds its address
\* for; every address in the index holds the value of its key; no hole holds a
\* value.  A destructor or a move that goes by the index thus meets a value that
\* is there, and none that was disposed of before.
Tracked(s) ==
    /\ \A a \in Held(s.heap) :
          /\ s.heap[a][1] \in DOMAIN s.contents.addresses
          /\ s.contents.addresses[s.heap[a][1]] = a
    /\ \A k \in DOMAIN s.contents.addresses :
          s.contents.addresses[k] \in Held(s.heap) /\ s.heap[s.contents.addresses[k]][1] = k
    /\ Range(s.contents.holes) \cap Held(s.heap) = {}

\* A removal disposes of the value of its key, if live, and of no other.
DisposesOne(s, r, key) ==
    /\ Held(r.s.heap) =
          Held(s.heap) \ (IF key \in DOMAIN s.contents.addresses
                          THEN {s.contents.addresses[key]} ELSE {})
    /\ \A a \in Held(r.s.heap) : r.s.heap[a] = s.heap[a]
    /\ Tracked(r.s)

\* A teardown runs the destructor of the value of each key in the index, at most
\* once and, if values have a destructor, once; of nothing else; and unless it
\* ends the process it leaves no value behind.
DisposesAll(s, r) ==
    /\ \A key \in DOMAIN s.contents.addresses :
          /\ Count(ValueDrop(key), r.runs) <= 1
          /\ needsDrop => Count(ValueDrop(key), r.runs) = 1
    /\ \A i \in 1..Len(r.runs) : r.runs[i].key \in DOMAIN s.contents.addresses
    /\ r.ret.kind # "Abort" => Held(r.s.heap) = {}
    /\ r.ret.kind = "Abort" => ~needsDrop

\* C31: over every sequence of calls that ends in the drop of the map, every
\* value a factory constructed is disposed of exactly once: a value stays where
\* it is, under its key, until a call destroys it in place (remove_key, clear,
\* drop) or moves it out (remove_pair); a cell whose value is gone is not in the
\* index, so that no later removal, clear or drop meets it again; and after the
\* drop no value is left.
C31_ExactlyOnce ==
    [][phase = "Active" =>
          /\ Tracked(S)
          /\ \A a \in Held(heap) :
                \/ heap'[a] = heap[a] /\ contents'.addresses = contents.addresses
                \/ heap'[a] = heap[a] /\ heap[a][1] \in DOMAIN contents'.addresses
                                      /\ contents'.addresses[heap[a][1]] = a
                \/ heap'[a] = <<>> /\ heap[a][1] \notin DOMAIN contents'.addresses
          /\ \A key \in Keys :
                /\ DisposesOne(S, remove_key(S, key), key)
                /\ DisposesOne(S, remove_pair(S, key), key)
          /\ DisposesAll(S, clear(S))
          /\ DisposesAll(S, drop(S))
          /\ phase' = "Destroyed" => Held(heap') = {}
          /\ phase' = "Aborted" => ~needsDrop]_vars

\* The drop of a PineMap that had held two entries at once and had drawn two
\* cells ran the destructor of the one value left, which panicked.
C31_Witness ==
    /\ phase = "Destroyed"
    /\ kind = "PineMap" /\ needsDrop
    /\ ret = Unwind(<<ValuePanic(1)>>)
    /\ usage = [drawn |-> 2, peak |-> 2]
    /\ Held(heap) = {}

\* The state after the step.
After == [contents |-> contents', heap |-> heap']

\* C32: when the factory of a shared insert panics, the call unwinds with the
\* write lock released and the index as it was: the attempted key is absent,
\* every other key has the address and the value it had, no other thread is
\* touched, and the lock is free for the next reader or writer.
C32_PanicReleases ==
    [][\A t \in Threads :
          (/\ threads[t].pc = "locked" /\ threads'[t].pc = "done"
           /\ ~threads[t].occupied /\ threads[t].f.outcome = "Panic") =>
              /\ threads'[t].ret.kind = "Panic" /\ threads'[t].invoked
              /\ rwlock = [writer |-> t, readers |-> {}]
              /\ rwlock' = [writer |-> 0, readers |-> {}]
              /\ CanWrite(rwlock') /\ CanRead(rwlock')
              /\ contents'.addresses = contents.addresses
              /\ get(After, threads[t].key) = NoResult
              /\ \A j \in Keys \ {threads[t].key} : get(After, j) = get(S, j)
              /\ \A a \in Held(heap) : heap'[a] = heap[a]
              /\ \A u \in Threads \ {t} : threads'[u] = threads[u]]_vars

\* The factory of thread 1 panicked in its insert under key 1, which drew the
\* first cell; thread 2 then inserted under the same key and got the second.
C32_Witness ==
    /\ start = {}
    /\ threads[1].pc = "done" /\ threads[1].key = 1 /\ threads[1].f.outcome = "Panic"
    /\ threads[1].ret.kind = "Panic" /\ threads[1].invoked
    /\ threads[2].pc = "done" /\ threads[2].op = "insert" /\ threads[2].key = 1
    /\ threads[2].ret.kind = "Ok" /\ threads[2].ret.value = 2
    /\ rwlock = [writer |-> 0, readers |-> {}]

\* C33: on a key that is absent, remove_pair, remove_value and remove_key return
\* None and drop_entry returns false, and the index, the hole list, the arena
\* and the values are as they were; a drop_entry that returns, returns true
\* exactly if the key was live.
C33_AbsentRemoval ==
    /\ \A key \in Keys \ DOMAIN contents.addresses :
          /\ remove_pair(S, key) = [s |-> S, ret |-> NoResult]
          /\ remove_value(S, key) = [s |-> S, ret |-> NoResult]
          /\ remove_key(S, key) = [s |-> S, ret |-> NoResult]
          /\ drop_entry(S, key).s = S
          /\ drop_entry(S, key).ret.kind = "False"
    /\ \A key \in DOMAIN contents.addresses : CanDrop(key) =>
          /\ drop_entry(S, key).ret.kind \in {"True", "Panic"}
          /\ drop_entry(S, key).ret.kind = "True" <=>
                (key \notin PanickingKeys /\ ~PanicsOnDrop(heap, contents.addresses[key]))
          /\ remove_pair(S, key).ret.kind = "Some"
          /\ remove_key(S, key).ret.kind \in {"Some", "Panic"}
    /\ ret.kind = "True" => contents.holes # <<>> \/ kind = "PressedPineMap"

\* drop_entry of the absent key 1 returned false on a PineMap that holds key 2
\* and has the slot key 1 once had as its hole.
C33_Witness ==
    /\ kind = "PineMap"
    /\ ret.kind = "False"
    /\ ~Live(1) /\ Live(2)
    /\ contents.holes = <<1>>
    /\ contents.memory.used = 2

\* C34: a get or get_mut leaves the index, the hole list, the arena and the
\* values as they are; for a live key it returns the address the index holds and
\* the value there, and the same again on the next call; for an absent key it
\* returns None, never an error or a panic.
C34_LookupReadOnly ==
    [][\A key \in Keys :
          (Get(key) \/ GetMut(key)) =>
              /\ contents' = contents
              /\ heap' = heap
              /\ ret'.kind \in {"Some", "None"}
              /\ IF key \in DOMAIN contents.addresses
                 THEN /\ ret'.kind = "Some"
                      /\ ret'.value = contents.addresses[key]
                      /\ heap[ret'.value] = <<key, ret'.val>>
                 ELSE ret' = NoResult
              /\ get(After, key) = ret'
              /\ get_mut(After, key) = ret']_vars

\* A lookup of key 2 in a PineMap returned its address, the second cell, with
\* the value 1; key 1 has been removed and its slot is the hole.
C34_Witness ==
    /\ kind = "PineMap"
    /\ ret.kind = "Some" /\ ret.value = 2 /\ ret.val = 1
    /\ DOMAIN contents.addresses = {2}
    /\ contents.addresses[2] = 2
    /\ contents.holes = <<1>>
    /\ heap[2] = <<2, 1>>
====
